---- MODULE Spec2Model ----
(***************************************************************************)
(* NHL-Projections: loading of the downloaded game files, column          *)
(* standardisation, rolling-feature construction, model-table assembly,    *)
(* training with a season split and projection of scheduled games.         *)
(*                                                                         *)
(* A table (pandas DataFrame) is a record                                  *)
(*     [cols |-> <<column names>>, data |-> <<rows>>]                      *)
(* where every row is a tuple of cell values aligned with cols (column     *)
(* names may repeat, as in pandas).  A numeric cell is a rational          *)
(* <<n, d>> in lowest terms with d > 0; <<0, 0>> is the null marker        *)
(* (NaN / NA / NaT) and <<1, 0>> is +infinity.  A text cell is a string.   *)
(* A date as downloaded is a triple <<year, month, day>>; a parsed date is *)
(* the number of days since 2021-01-01.                                    *)
(***************************************************************************)
EXTENDS Integers, Sequences, FiniteSets, TLC

VARIABLES
    pc,          \* position of the run the specification describes
    df,          \* table handed to rolling_features
    entity_cols, \* grouping columns handed to rolling_features
    windows,     \* window lengths handed to rolling_features
    out,         \* table returned by rolling_features / per60
    team_game,           \* MoneyPuck_Data/processed/team_game.parquet
    skater_game,         \* MoneyPuck_Data/processed/skater_game.parquet
    goalie_game,         \* MoneyPuck_Data/processed/goalie_game.parquet
    team_features,       \* features/team_features.parquet
    skater_features,     \* features/skater_features.parquet
    goalie_features,     \* features/goalie_features.parquet
    team_model_table,    \* model_data/team_model_table.parquet
    skater_model_table,  \* model_data/skater_model_table.parquet
    goalie_model_table,  \* model_data/goalie_model_table.parquet
    models,              \* models/team_<target>.joblib, by target
    report,              \* models/team_model_report.csv
    splits,              \* train_df and test_df of each target in the trainer's last run
    df_sched,            \* the schedule the projector was given
    preds,               \* preds/team_game_projections_next7.csv
    last_run,            \* the stage run last and how it ended
    raw_dir,             \* MoneyPuck_Data/raw: the downloaded files of each kind, as listed
    download             \* a call of download_with_retries: its arguments, its place, its file

callvars == <<df, entity_cols, windows, out>>
rawvars == <<team_game, skater_game, goalie_game>>
featvars == <<team_features, skater_features, goalie_features>>
modelvars == <<team_model_table, skater_model_table, goalie_model_table>>
trainvars == <<models, report, splits>>
projvars == <<df_sched, preds>>
filevars == <<rawvars, featvars, modelvars, trainvars, projvars, last_run>>

vars == <<pc, callvars, filevars, raw_dir, download>>

---------------------------------------------------------------------------
(* Numbers *)

NULL == <<0, 0>>
INF == <<1, 0>>

IsNull(v) == v = NULL

Abs(n) == IF n < 0 THEN -n ELSE n

RECURSIVE GCD(_, _)
GCD(a, b) == IF b = 0 THEN a ELSE GCD(b, a % b)

\* the float n/d; IEEE division by zero gives NaN for 0/0 and infinity otherwise
Frac(n, d) ==
    IF d = 0 THEN (IF n = 0 THEN NULL ELSE INF)
    ELSE LET s == IF d < 0 THEN -1 ELSE 1
             g == GCD(Abs(n), Abs(d))
         IN  <<(s * n) \div g, (s * d) \div g>>

Num(n) == <<n, 1>>

RAdd(a, b) ==
    IF IsNull(a) \/ IsNull(b) THEN NULL
    ELSE IF a = INF \/ b = INF THEN INF
    ELSE Frac(a[1] * b[2] + b[1] * a[2], a[2] * b[2])

RSub(a, b) ==
    IF IsNull(a) \/ IsNull(b) THEN NULL
    ELSE Frac(a[1] * b[2] - b[1] * a[2], a[2] * b[2])

RMul(a, b) ==
    IF IsNull(a) \/ IsNull(b) THEN NULL
    ELSE IF a = INF \/ b = INF THEN INF
    ELSE Frac(a[1] * b[1], a[2] * b[2])

RDiv(a, b) ==
    IF IsNull(a) \/ IsNull(b) THEN NULL
    ELSE IF a = INF THEN INF
    ELSE Frac(a[1] * b[2], a[2] * b[1])

\* a < b for two non-null finite numbers
RLess(a, b) == a[1] * b[2] < b[1] * a[2]

---------------------------------------------------------------------------
(* Strings *)

Alphabet == <<" ", "0", "1", "2", "3", "4", "5", "6", "7", "8", "9",
              "A", "B", "C", "D", "E", "F", "G", "H", "I", "J", "K", "L", "M",
              "N", "O", "P", "Q", "R", "S", "T", "U", "V", "W", "X", "Y", "Z",
              "_",
              "a", "b", "c", "d", "e", "f", "g", "h", "i", "j", "k", "l", "m",
              "n", "o", "p", "q", "r", "s", "t", "u", "v", "w", "x", "y", "z">>

OrdOf == [ch \in {Alphabet[i] : i \in 1..Len(Alphabet)} |->
              CHOOSE i \in 1..Len(Alphabet) : Alphabet[i] = ch]

Ord(ch) == OrdOf[ch]

RECURSIVE StrLess(_, _)
StrLess(s, t) ==
    IF Len(t) = 0 THEN FALSE
    ELSE IF Len(s) = 0 THEN TRUE
    ELSE LET a == Ord(SubSeq(s, 1, 1))
             b == Ord(SubSeq(t, 1, 1))
         IN  IF a # b THEN a < b
             ELSE StrLess(SubSeq(s, 2, Len(s)), SubSeq(t, 2, Len(t)))

StartsWith(s, p) == Len(s) >= Len(p) /\ SubSeq(s, 1, Len(p)) = p

RECURSIVE Strip(_)
Strip(s) ==
    IF Len(s) = 0 THEN s
    ELSE IF SubSeq(s, 1, 1) = " " THEN Strip(SubSeq(s, 2, Len(s)))
    ELSE IF SubSeq(s, Len(s), Len(s)) = " " THEN Strip(SubSeq(s, 1, Len(s) - 1))
    ELSE s

---------------------------------------------------------------------------
(* Tables *)

\* columns whose cells are text; every other column holds numbers
TextCols == {"team", "team_opp", "home_or_away", "situation",
             "target", "model", "homeTeam", "awayTeam",
             "playerTeam", "teamAbbrev", "teamCode",
             "opposingTeam", "opponentTeam", "oppTeam", "opponent",
             "homeOrAway", "homeAway"}

\* the sequence <<F(1), ..., F(n)>>
MkSeq(n, F(_)) == SubSeq([i \in 1..n |-> F(i)], 1, n)

Frame(cols, data) == [cols |-> cols, data |-> data]

\* no table: a file that was not written, a call that was not made
NoFrame == Frame(<< >>, << >>)

NRows(f) == Len(f.data)

HasCol(f, c) == \E i \in 1..Len(f.cols) : f.cols[i] = c

\* position of the (first) column named c
ColIdx(f, c) ==
    CHOOSE i \in 1..Len(f.cols) :
        f.cols[i] = c /\ \A j \in 1..(i - 1) : f.cols[j] # c

Cell(f, r, c) == f.data[r][ColIdx(f, c)]

Column(f, c) == LET k == ColIdx(f, c) IN MkSeq(NRows(f), LAMBDA r : f.data[r][k])

\* df[c] = vals : overwrite the column when present, append it otherwise
SetCol(f, c, vals) ==
    IF HasCol(f, c)
    THEN LET k == ColIdx(f, c)
         IN  Frame(f.cols, MkSeq(NRows(f), LAMBDA r : [f.data[r] EXCEPT ![k] = vals[r]]))
    ELSE Frame(Append(f.cols, c), MkSeq(NRows(f), LAMBDA r : Append(f.data[r], vals[r])))

\* df[names] : the named columns in list order (a name listed twice is taken twice)
Select(f, names) ==
    LET at == MkSeq(Len(names), LAMBDA k : ColIdx(f, names[k]))
    IN  Frame(names,
              MkSeq(NRows(f), LAMBDA r : MkSeq(Len(names), LAMBDA k : f.data[r][at[k]])))

\* df.iloc[order]
Take(f, order) == Frame(f.cols, MkSeq(Len(order), LAMBDA k : f.data[order[k]]))

\* pd.to_numeric(df[c], errors="coerce")
to_numeric(c, v) == IF c \in TextCols THEN NULL ELSE v

\* cell a sorts strictly before cell b in column c; nulls sort last
CellLess(c, a, b) ==
    IF a = b THEN FALSE
    ELSE IF c \in TextCols THEN StrLess(a, b)
    ELSE IF IsNull(a) THEN FALSE
    ELSE IF IsNull(b) THEN TRUE
    ELSE RLess(a, b)

\* the cells of row r in the columns by
KeyOf(f, by, r) == MkSeq(Len(by), LAMBDA k : Cell(f, r, by[k]))

RECURSIVE KeyLess(_, _, _, _)
KeyLess(by, k, key1, key2) ==
    IF k > Len(by) THEN FALSE
    ELSE IF key1[k] = key2[k] THEN KeyLess(by, k + 1, key1, key2)
    ELSE CellLess(by[k], key1[k], key2[k])

\* order of the rows under df.sort_values(by): ascending, nulls last, stable
SortOrder(f, by) ==
    LET n == NRows(f)
        key == MkSeq(n, LAMBDA r : KeyOf(f, by, r))
        Before(q, r) == IF key[q] = key[r] THEN q < r ELSE KeyLess(by, 1, key[q], key[r])
        rank == MkSeq(n, LAMBDA r : 1 + Cardinality({q \in 1..n : Before(q, r)}))
    IN  MkSeq(n, LAMBDA k : CHOOSE r \in 1..n : rank[r] = k)

sort_values(f, by) == Take(f, SortOrder(f, by))

\* groupby leaves out the rows whose key holds a null
KeyIsNull(group_cols, key) ==
    \E k \in 1..Len(group_cols) : group_cols[k] \notin TextCols /\ IsNull(key[k])

---------------------------------------------------------------------------
(* 04_build_features_moneypuck.py : rolling_features *)

PosIn(s, e) == CHOOSE i \in 1..Len(s) : s[i] = e

\* the window takes the current row in: no shift
shift_none(xs) == xs

\* x.shift(1, fill_value=0)
shift_zero(xs) == MkSeq(Len(xs), LAMBDA i : IF i = 1 THEN Num(0) ELSE xs[i - 1])

\* x.shift(1)
shift(xs) == MkSeq(Len(xs), LAMBDA i : IF i = 1 THEN NULL ELSE xs[i - 1])

Max(a, b) == IF a > b THEN a ELSE b
Min(a, b) == IF a < b THEN a ELSE b

RECURSIVE SumSeq(_)
SumSeq(xs) == IF Len(xs) = 0 THEN Num(0) ELSE RAdd(Head(xs), SumSeq(Tail(xs)))

\* mean of the non-null entries, null when fewer than min_periods of them
MeanMinPeriods(xs, min_periods) ==
    LET obs == SelectSeq(xs, LAMBDA v : ~IsNull(v))
    IN  IF Len(obs) < min_periods THEN NULL
        ELSE RDiv(SumSeq(obs), Num(Len(obs)))

\* a window one row too long
rolling_mean_long(xs, w) ==
    MkSeq(Len(xs), LAMBDA i : MeanMinPeriods(SubSeq(xs, Max(1, i - w), i), 1))

\* xs.rolling(w, min_periods=1).mean()
rolling_mean(xs, w) ==
    MkSeq(Len(xs), LAMBDA i : MeanMinPeriods(SubSeq(xs, Max(1, i - w + 1), i), 1))

\* g.apply(lambda x: x.shift(1).rolling(w, min_periods=1).mean()), aligned to the rows of f:
\* every group (rows of equal key, in table order) is rolled on its own
RollColumn(f, group_cols, c, w) ==
    LET n      == NRows(f)
        key    == MkSeq(n, LAMBDA r : KeyOf(f, group_cols, r))
        x      == Column(f, c)
        rows   == MkSeq(n, LAMBDA r : r)
        first  == SelectSeq(rows, LAMBDA r : /\ ~KeyIsNull(group_cols, key[r])
                                             /\ \A q \in 1..(r - 1) : key[q] # key[r])
        member == MkSeq(Len(first), LAMBDA g : SelectSeq(rows, LAMBDA r : key[r] = key[first[g]]))
        rolled == MkSeq(Len(first), LAMBDA g :
                      rolling_mean(shift(MkSeq(Len(member[g]), LAMBDA i : x[member[g][i]])), w))
    IN  MkSeq(n, LAMBDA r :
            IF KeyIsNull(group_cols, key[r]) THEN NULL
            ELSE LET g == CHOOSE h \in 1..Len(first) : key[first[h]] = key[r]
                 IN  rolled[g][PosIn(member[g], r)])

RollName(prefix, w, c) == prefix \o ToString(w) \o "_" \o c

RECURSIVE RollWindows(_, _, _, _, _, _)
RollWindows(f, group_cols, c, ws, k, prefix) ==
    IF k > Len(ws) THEN f
    ELSE RollWindows(SetCol(f, RollName(prefix, ws[k], c), RollColumn(f, group_cols, c, ws[k])),
                     group_cols, c, ws, k + 1, prefix)

RECURSIVE RollValueCols(_, _, _, _, _, _)
RollValueCols(f, group_cols, value_cols, k, ws, prefix) ==
    IF k > Len(value_cols) THEN f
    ELSE LET c == value_cols[k]
         IN  IF ~HasCol(f, c)
             THEN RollValueCols(f, group_cols, value_cols, k + 1, ws, prefix)
             ELSE LET x   == Column(f, c)
                      num == SetCol(f, c, MkSeq(NRows(f), LAMBDA r : to_numeric(c, x[r])))
                  IN  RollValueCols(RollWindows(num, group_cols, c, ws, 1, prefix),
                                    group_cols, value_cols, k + 1, ws, prefix)

\* windows=(5,10,20): the default, and what main passes
DefaultWindows == <<5, 10, 20>>

\* the table is sorted where it stands
sorted_in_place(f, group_cols, sort_col) == sort_values(f, Append(group_cols, sort_col))

\* line 25: the caller's table once rolling_features has returned.  sort_values returns
\* a new table and the parameter df is bound to a copy of it, so every later assignment
\* goes to the copy
caller_table(f, group_cols, sort_col) == f

rolling_features(f, group_cols, sort_col, value_cols, ws, prefix) ==
    RollValueCols(sort_values(f, Append(group_cols, sort_col)),
                  group_cols, value_cols, 1, ws, prefix)

---------------------------------------------------------------------------
(* nhlproj/common.py *)

\* a map that replaces nothing
keep_code(code) == code

\* TEAM_MAP, as Series.replace applies it: codes outside the map are kept
TEAM_MAP(code) ==
    CASE code = "LA"  -> "LAK"
      [] code = "NJ"  -> "NJD"
      [] code = "SJ"  -> "SJS"
      [] code = "TB"  -> "TBL"
      [] code = "WAS" -> "WSH"
      [] OTHER        -> code

\* d[col].astype(str).str.strip().replace(TEAM_MAP)
NormalizeTeam(code) == TEAM_MAP(Strip(code))

NoCol == ""

\* pick_col / first_existing_col: the first candidate that is a column, else None
RECURSIVE pick_col(_, _)
pick_col(f, candidates) ==
    IF Len(candidates) = 0 THEN NoCol
    ELSE IF HasCol(f, Head(candidates)) THEN Head(candidates)
    ELSE pick_col(f, Tail(candidates))

\* df.iloc[:, positions] under the names given
TakeCols(f, positions, names) ==
    Frame(MkSeq(Len(positions), LAMBDA k : names[positions[k]]),
          MkSeq(NRows(f), LAMBDA r : MkSeq(Len(positions), LAMBDA k : f.data[r][positions[k]])))

\* the stripped names, of each the last column
strip_and_keep_last(f) ==
    LET stripped == MkSeq(Len(f.cols), LAMBDA i : Strip(f.cols[i]))
        keep     == SelectSeq(MkSeq(Len(f.cols), LAMBDA i : i),
                              LAMBDA i : \A j \in (i + 1)..Len(f.cols) : stripped[j] # stripped[i])
    IN  TakeCols(f, keep, stripped)

\* lines 144-145: the check after the duplicates were dropped
still_duplicated(f) == \E i, j \in 1..Len(f.cols) : i # j /\ f.cols[i] = f.cols[j]

strip_and_dedup_columns(f) ==
    LET stripped == MkSeq(Len(f.cols), LAMBDA i : Strip(f.cols[i]))
        keep     == SelectSeq(MkSeq(Len(f.cols), LAMBDA i : i),
                              LAMBDA i : \A j \in 1..(i - 1) : stripped[j] # stripped[i])
    IN  TakeCols(f, keep, stripped)

---------------------------------------------------------------------------
(* pandas operations the scripts use *)

\* the members of names that are columns of f, in list order
Present(f, names) == SelectSeq(names, LAMBDA c : HasCol(f, c))

\* the columns of f whose name starts with prefix, in column order
WithPrefix(f, prefix) == SelectSeq(f.cols, LAMBDA c : StartsWith(c, prefix))

\* df.rename(columns={old: new})
Rename(f, old, new) ==
    Frame(MkSeq(Len(f.cols), LAMBDA i : IF f.cols[i] = old THEN new ELSE f.cols[i]), f.data)

\* df.drop(columns=[c])
DropCol(f, c) ==
    LET keep == SelectSeq(MkSeq(Len(f.cols), LAMBDA i : i), LAMBDA i : f.cols[i] # c)
    IN  TakeCols(f, keep, f.cols)

RECURSIVE Flatten(_)
Flatten(ss) == IF Len(ss) = 0 THEN << >> ELSE Head(ss) \o Flatten(Tail(ss))

\* the join that compares the first key column alone
merge_on_first(left, right, left_on, right_on) ==
    LET shared(i) == \E k \in 1..Len(right_on) :
                        right.cols[i] = right_on[k] /\ left_on[k] = right_on[k]
        rkeep     == SelectSeq(MkSeq(Len(right.cols), LAMBDA i : i), LAMBDA i : ~shared(i))
        clash(c)  == HasCol(left, c) /\ \E k \in 1..Len(rkeep) : right.cols[rkeep[k]] = c
        lnames    == MkSeq(Len(left.cols), LAMBDA i :
                         IF clash(left.cols[i]) THEN left.cols[i] \o "_x" ELSE left.cols[i])
        rnames    == MkSeq(Len(rkeep), LAMBDA k :
                         IF clash(right.cols[rkeep[k]]) THEN right.cols[rkeep[k]] \o "_y"
                         ELSE right.cols[rkeep[k]])
        lkey      == MkSeq(NRows(left), LAMBDA r : KeyOf(left, SubSeq(left_on, 1, 1), r))
        rkey      == MkSeq(NRows(right), LAMBDA r : KeyOf(right, SubSeq(right_on, 1, 1), r))
        rpart(q)  == MkSeq(Len(rkeep), LAMBDA k : right.data[q][rkeep[k]])
        nulls     == MkSeq(Len(rkeep), LAMBDA k : NULL)
        joined(r) == LET hits == SelectSeq(MkSeq(NRows(right), LAMBDA q : q),
                                           LAMBDA q : rkey[q] = lkey[r])
                     IN  IF Len(hits) = 0 THEN <<left.data[r] \o nulls>>
                         ELSE MkSeq(Len(hits), LAMBDA h : left.data[r] \o rpart(hits[h]))
    IN  Frame(lnames \o rnames, Flatten(MkSeq(NRows(left), LAMBDA r : joined(r))))

\* left.merge(right, left_on=left_on, right_on=right_on, how="left"): every left row, in
\* order, once per right row of equal key (in right order) or once with nulls; a right key
\* column named as its left counterpart is not repeated, and a column name the two sides
\* share outside that gets the suffixes _x and _y
merge_left(left, right, left_on, right_on) ==
    LET shared(i) == \E k \in 1..Len(right_on) :
                        right.cols[i] = right_on[k] /\ left_on[k] = right_on[k]
        rkeep     == SelectSeq(MkSeq(Len(right.cols), LAMBDA i : i), LAMBDA i : ~shared(i))
        clash(c)  == HasCol(left, c) /\ \E k \in 1..Len(rkeep) : right.cols[rkeep[k]] = c
        lnames    == MkSeq(Len(left.cols), LAMBDA i :
                         IF clash(left.cols[i]) THEN left.cols[i] \o "_x" ELSE left.cols[i])
        rnames    == MkSeq(Len(rkeep), LAMBDA k :
                         IF clash(right.cols[rkeep[k]]) THEN right.cols[rkeep[k]] \o "_y"
                         ELSE right.cols[rkeep[k]])
        lkey      == MkSeq(NRows(left), LAMBDA r : KeyOf(left, left_on, r))
        rkey      == MkSeq(NRows(right), LAMBDA r : KeyOf(right, right_on, r))
        rpart(q)  == MkSeq(Len(rkeep), LAMBDA k : right.data[q][rkeep[k]])
        nulls     == MkSeq(Len(rkeep), LAMBDA k : NULL)
        joined(r) == LET hits == SelectSeq(MkSeq(NRows(right), LAMBDA q : q),
                                           LAMBDA q : rkey[q] = lkey[r])
                     IN  IF Len(hits) = 0 THEN <<left.data[r] \o nulls>>
                         ELSE MkSeq(Len(hits), LAMBDA h : left.data[r] \o rpart(hits[h]))
    IN  Frame(lnames \o rnames, Flatten(MkSeq(NRows(left), LAMBDA r : joined(r))))

\* d[col] = f(d[col]) when the column is present
MapCol(f, c, Op(_)) ==
    IF HasCol(f, c)
    THEN LET x == Column(f, c) IN SetCol(f, c, MkSeq(NRows(f), LAMBDA r : Op(x[r])))
    ELSE f

---------------------------------------------------------------------------
(* 04_build_features_moneypuck.py : per60 and main *)

\* the replace left out
replace_nothing(v) == v

\* toi.replace(0, np.nan)
replace_zero(v) == IF v = Num(0) THEN NULL ELSE v

\* per60(df, num_col, toi_col), one row
per60_cell(num_col, toi_col, x, toi) ==
    RDiv(RMul(Num(60), to_numeric(num_col, x)), replace_zero(to_numeric(toi_col, toi)))

per60(f, num_col, toi_col) ==
    LET x   == Column(f, num_col)
        toi == Column(f, toi_col)
    IN  MkSeq(NRows(f), LAMBDA r : per60_cell(num_col, toi_col, x[r], toi[r]))

\* the cells of the processed tables are numbers, dates or nulls already
ensure_int(f, col) == MapCol(f, col, LAMBDA v : to_numeric(col, v))
ensure_dt(f, col) == MapCol(f, col, LAMBDA v : to_numeric(col, v))

\* lines 59-71: what main does to each of the three tables it reads
Prepared(raw) ==
    LET d1 == strip_and_dedup_columns(raw)
        d2 == MapCol(d1, "team", NormalizeTeam)
        d3 == MapCol(d2, "team_opp", NormalizeTeam)
    IN  ensure_dt(ensure_int(d3, "gameId"), "gameDate")

BaseCols == <<"gameId", "gameDate", "season", "team", "team_opp", "home_or_away">>

team_cols_candidates ==
    << <<"goalsFor", "gf", "teamGoalsFor", "goals_for">>,
       <<"goalsAgainst", "ga", "teamGoalsAgainst", "goals_against">>,
       <<"shotsFor", "sf", "shots_for", "teamShotsFor", "shotsOnGoalFor", "sogFor">>,
       <<"shotsAgainst", "sa", "shots_against", "teamShotsAgainst", "shotsOnGoalAgainst", "sogAgainst">>,
       <<"xGoalsFor", "xgf", "expectedGoalsFor", "xgoalsFor">>,
       <<"xGoalsAgainst", "xga", "expectedGoalsAgainst", "xgoalsAgainst">> >>

\* canon.values(): the column picked for each statistic that has one
CanonCols(f) ==
    SelectSeq(MkSeq(Len(team_cols_candidates), LAMBDA k : pick_col(f, team_cols_candidates[k])),
              LAMBDA c : c # NoCol)

\* groupby("team")["gameDate"].diff().dt.days on a table sorted by team and gameDate
DaysSincePrev(f) ==
    LET team == Column(f, "team")
        date == Column(f, "gameDate")
    IN  MkSeq(NRows(f), LAMBDA r :
            LET prev == {q \in 1..(r - 1) : team[q] = team[r]}
            IN  IF prev = {} THEN NULL
                ELSE RSub(date[r], date[CHOOSE q \in prev : \A q2 \in prev : q2 <= q]))

\* lines 88-92
AddDaysSincePrev(sorted) == SetCol(sorted, "days_since_prev_game", DaysSincePrev(sorted))

SortedWithDays(team) ==
    IF HasCol(team, "team") /\ HasCol(team, "gameDate")
    THEN AddDaysSincePrev(sort_values(team, <<"team", "gameDate">>))
    ELSE team

\* lines 94-98
TeamRolled(team_feat, canon) ==
    rolling_features(team_feat, <<"team">>, "gameDate",
                     Present(team_feat, canon) \o Present(team_feat, <<"days_since_prev_game">>),
                     DefaultWindows, "team_")

\* lines 100-102: the base columns present, then the columns of the prefix
KeepOut(rolled, keep_base, prefix) ==
    Select(rolled, Present(rolled, keep_base) \o WithPrefix(rolled, prefix))

TeamOut(team) ==
    strip_and_dedup_columns(KeepOut(TeamRolled(SortedWithDays(team), CanonCols(team)),
                                    BaseCols, "team_"))

\* lines 59-105: team_features.parquet
TeamFeatures(raw) == TeamOut(Prepared(raw))

PidAliases == <<"playerId", "player_id", "id", "nhlPlayerId">>
ToiAliases == <<"icetime_min", "icetime", "timeOnIce", "toi">>

count_candidates ==
    <<"goals", "assists", "points", "shotsOnGoal", "shots", "shots_on_goal",
      "ixG", "iXG", "xGoals", "xGoalsFor", "xG", "iFenwick", "iCorsi", "shotAttempts">>

RECURSIVE AddPer60(_, _, _)
AddPer60(f, count_cols, toi_col) ==
    IF Len(count_cols) = 0 THEN f
    ELSE AddPer60(SetCol(f, Head(count_cols) \o "_per60", per60(f, Head(count_cols), toi_col)),
                  Tail(count_cols), toi_col)

\* lines 109-112: RuntimeError("Skater playerId or TOI column not found.")
SkaterMissing(sk) == pick_col(sk, PidAliases) = NoCol \/ pick_col(sk, ToiAliases) = NoCol

SkaterFatal(raw) == SkaterMissing(Prepared(raw))

\* lines 117-118 and 155-156
PreferMinutes(f, toi_first) ==
    IF toi_first # NoCol /\ toi_first # "icetime_min" /\ HasCol(f, "icetime_min")
    THEN "icetime_min" ELSE toi_first

\* the table under the canonical identifier name, as written
PlayerOut(rolled, pid_col, prefix) ==
    strip_and_dedup_columns(
        Rename(KeepOut(rolled, Append(BaseCols, pid_col), prefix), pid_col, "playerId"))

\* lines 126-131
SkaterRolled(sk_feat, pid_col, toi_col, count_cols) ==
    rolling_features(AddPer60(sk_feat, count_cols, toi_col), <<"team", pid_col>>, "gameDate",
                     <<toi_col>> \o MkSeq(Len(count_cols), LAMBDA k : count_cols[k] \o "_per60"),
                     DefaultWindows, "sk_")

\* lines 114-136
SkaterOut(sk_feat, pid_col, toi_col) ==
    PlayerOut(SkaterRolled(sk_feat, pid_col, toi_col, Present(sk_feat, count_candidates)),
              pid_col, "sk_")

SkaterPicked(sk, pid_col, toi_first) ==
    SkaterOut(ensure_int(sk, pid_col), pid_col, PreferMinutes(sk, toi_first))

\* lines 108-109
SkaterFrom(sk) == SkaterPicked(sk, pick_col(sk, PidAliases), pick_col(sk, ToiAliases))

\* lines 59-71 and 108-140: skater_features.parquet
SkaterFeatures(raw) == SkaterFrom(Prepared(raw))

\* line 145: RuntimeError("Goalie playerId column not found.")
GoalieFatal(raw) == pick_col(Prepared(raw), PidAliases) = NoCol

\* 1.0 - ga / sa.replace(0, np.nan)
save_pct_cell(ga, sa) == RSub(Num(1), RDiv(ga, replace_zero(sa)))

\* lines 162-168
SavePct(f, ga_col, sa_col) ==
    IF sa_col # NoCol /\ ga_col # NoCol
    THEN MkSeq(NRows(f), LAMBDA r :
             save_pct_cell(to_numeric(ga_col, Cell(f, r, ga_col)),
                           to_numeric(sa_col, Cell(f, r, sa_col))))
    ELSE MkSeq(NRows(f), LAMBDA r : NULL)

\* lines 170-171
GoalieRolled(go_feat, g_pid_col, roll_cols) ==
    rolling_features(go_feat, <<"team", g_pid_col>>, "gameDate",
                     SelectSeq(roll_cols, LAMBDA c : c # NoCol /\ HasCol(go_feat, c)),
                     DefaultWindows, "go_")

GoalieCols(go_feat, g_pid_col, g_toi_col, ga_col, sa_col, sv_col) ==
    PlayerOut(GoalieRolled(SetCol(go_feat, "save_pct", SavePct(go_feat, ga_col, sa_col)),
                           g_pid_col, <<ga_col, sa_col, sv_col, "save_pct", g_toi_col>>),
              g_pid_col, "go_")

\* lines 158-160
GoalieOut(go_feat, g_pid_col, g_toi_col) ==
    GoalieCols(go_feat, g_pid_col, g_toi_col,
               pick_col(go_feat, <<"goalsAgainst", "ga", "goals_against">>),
               pick_col(go_feat, <<"shotsAgainst", "sa", "shots_against">>),
               pick_col(go_feat, <<"saves", "sv">>))

GoaliePicked(go, g_pid_col, toi_first) ==
    GoalieOut(ensure_int(go, g_pid_col), g_pid_col, PreferMinutes(go, toi_first))

\* lines 142-143
GoalieFrom(go) == GoaliePicked(go, pick_col(go, PidAliases), pick_col(go, ToiAliases))

\* lines 59-71 and 142-174: goalie_features.parquet
GoalieFeatures(raw) == GoalieFrom(Prepared(raw))

---------------------------------------------------------------------------
(* 05_build_model_tables.py : main *)

\* team_targets: the y_ name and the candidate raw columns of each target, in dict order
team_targets ==
    << <<"y_goalsFor", <<"goalsFor", "gf", "teamGoalsFor", "goals_for">> >>,
       <<"y_goalsAgainst", <<"goalsAgainst", "ga", "teamGoalsAgainst", "goals_against">> >>,
       <<"y_shotsOnGoalFor", <<"shotsOnGoalFor", "shotsFor", "sf", "sogFor">> >>,
       <<"y_shotsOnGoalAgainst", <<"shotsOnGoalAgainst", "shotsAgainst", "sa", "sogAgainst">> >>,
       <<"y_xGoalsFor", <<"xGoalsFor", "xgf", "expectedGoalsFor", "xgoalsFor">> >>,
       <<"y_xGoalsAgainst", <<"xGoalsAgainst", "xga", "expectedGoalsAgainst", "xgoalsAgainst">> >> >>

TeamKey == <<"gameId", "team">>

\* lines 58-63: one left merge per target whose raw column is present
RECURSIVE JoinTargets(_, _, _)
JoinTargets(team_model, raw, k) ==
    IF k > Len(team_targets) THEN team_model
    ELSE LET yname == team_targets[k][1]
             col   == pick_col(raw, team_targets[k][2])
         IN  IF col # NoCol
             THEN LET tmp == Rename(Select(raw, <<"gameId", "team", col>>), col, yname)
                  IN  JoinTargets(merge_left(team_model, tmp, TeamKey, TeamKey), raw, k + 1)
             ELSE JoinTargets(team_model, raw, k + 1)

\* lines 66-67: the identifying columns, then the feature and the target columns
ModelOut(model, keep, prefix) ==
    strip_and_dedup_columns(Select(model, keep \o WithPrefix(model, prefix) \o WithPrefix(model, "y_")))

\* lines 39-70: team_model_table.parquet
TeamModelTable(raw, team_feat) ==
    ModelOut(JoinTargets(team_feat, raw, 1), Present(team_feat, BaseCols), "team_")

RECURSIVE RenameAll(_, _)
RenameAll(f, pairs) ==
    IF Len(pairs) = 0 THEN f
    ELSE RenameAll(IF Head(pairs)[1] # NoCol THEN Rename(f, Head(pairs)[1], Head(pairs)[2]) ELSE f,
                   Tail(pairs))

PlayerKey == <<"gameId", "team", "playerId">>

\* lines 88-89: the right identifier column goes when the joined table has one of its name
DropPid(merged, pid) == IF HasCol(merged, pid) THEN DropCol(merged, pid) ELSE merged

\* lines 98-102
PlayerModelOut(renamed, prefix) ==
    ModelOut(renamed, Present(renamed, Append(BaseCols, "playerId")), prefix)

\* lines 81-96; picked is the list of <<raw column or None, y_ name>> in the order of
\* the merge's column list
PlayerJoined(game, feat, pid, picked) ==
    RenameAll(DropPid(merge_left(feat,
                                 Select(game, <<"gameId", "team", pid>>
                                     \o SelectSeq(MkSeq(Len(picked), LAMBDA k : picked[k][1]),
                                                  LAMBDA c : c # NoCol)),
                                 PlayerKey, <<"gameId", "team", pid>>),
                      pid),
              picked)

\* lines 75-104 (skater) and 108-136 (goalie): targets is the list of
\* <<candidate raw columns, y_ name>>, prefix the prefix of the feature columns
PlayerModelTable(game, feat, targets, prefix) ==
    PlayerModelOut(PlayerJoined(game, feat, pick_col(game, PidAliases),
                                MkSeq(Len(targets), LAMBDA k :
                                    <<pick_col(game, targets[k][1]), targets[k][2]>>)),
                   prefix)

\* merge column order [goals, assists, points, toi]
skater_targets ==
    << << <<"goals">>, "y_goals">>, << <<"assists">>, "y_assists">>,
       << <<"points">>, "y_points">>, <<ToiAliases, "y_toi">> >>

\* merge column order [ga2, sa2, sv2, gtoi]
goalie_targets ==
    << << <<"goalsAgainst", "ga", "goals_against">>, "y_goalsAgainst">>,
       << <<"shotsAgainst", "sa", "shots_against">>, "y_shotsAgainst">>,
       << <<"saves", "sv">>, "y_saves">>,
       <<ToiAliases, "y_toi">> >>

---------------------------------------------------------------------------
(* 06_train_models_team.py : main *)

TeamTargetNames == {team_targets[k][1] : k \in 1..Len(team_targets)}

\* candidates, in dict order
Candidates == <<"ridge", "hgb", "rf">>

\* no artifact under a target's name
NoModel == [model |-> "none", feat_cols |-> << >>, y_mean |-> NULL]
NoModels == [y \in TeamTargetNames |-> NoModel]

NoSplit == [train_df |-> NoFrame, test_df |-> NoFrame, fitted |-> FALSE]
NoSplits == [y \in TeamTargetNames |-> NoSplit]

\* pd.api.types.is_numeric_dtype(df[c])
is_numeric_dtype(c) == c \notin TextCols

\* lines 34-50
NumericFeatCols(f) == SelectSeq(WithPrefix(f, "team_"), is_numeric_dtype)

\* df[mask]
Filter(f, Keep(_)) == Frame(f.cols, SelectSeq(f.data, Keep))

\* df.dropna(subset=[c]); a text cell is never null
dropna(f, c) ==
    IF c \in TextCols THEN f
    ELSE LET k == ColIdx(f, c) IN Filter(f, LAMBDA row : ~IsNull(row[k]))

\* lines 52-54
SeasonRows(f) ==
    LET seasons == Column(f, "season")
    IN  dropna(SetCol(f, "season", MkSeq(NRows(f), LAMBDA r : to_numeric("season", seasons[r]))),
               "season")

\* int(None) on a table left without rows
HoldoutFatal(f) == NRows(SeasonRows(f)) = 0

\* line 56: df["season"].max()
holdout_season(f) ==
    LET seasons == Column(f, "season")
    IN  CHOOSE h \in {seasons[r] : r \in 1..Len(seasons)} :
            \A r \in 1..Len(seasons) : ~RLess(h, seasons[r])

\* the holdout season taken into the training rows
train_rows_upto(d, h) ==
    LET k == ColIdx(d, "season") IN Filter(d, LAMBDA row : ~RLess(h, row[k]))

\* line 89: d[d["season"] < holdout_season]
train_rows(d, h) ==
    LET k == ColIdx(d, "season") IN Filter(d, LAMBDA row : RLess(row[k], h))

\* line 90: d[d["season"] == holdout_season]
test_rows(d, h) ==
    LET k == ColIdx(d, "season") IN Filter(d, LAMBDA row : row[k] = h)

\* the imputer leaves out a column without an observed value; a fit on no column raises
FitFatal(train_df, feat_cols) ==
    \A k \in 1..Len(feat_cols) :
        \A r \in 1..NRows(train_df) : IsNull(Cell(train_df, r, feat_cols[k]))

\* lines 101-118: the first candidate of strictly lowest MAE
RECURSIVE BestFrom(_, _, _)
BestFrom(mae, k, best) ==
    IF k > Len(Candidates) THEN best
    ELSE BestFrom(mae, k + 1, IF best = 0 \/ RLess(mae[k], mae[best]) THEN k ELSE best)

\* the first candidate, whatever the errors
first_candidate(mae) == 1

Best(mae) == BestFrom(mae, 1, 0)

\* the holdout errors target number k meets when the run's errors are scen
Rotate(scen, k) == MkSeq(Len(scen), LAMBDA i : scen[((i + k - 2) % Len(scen)) + 1])

ReportCols == <<"target", "model", "holdout_season", "MAE", "n_train", "n_test", "n_features">>

\* lines 87-123 from target number k on; run is what the earlier targets left
RECURSIVE TrainTargets(_, _, _, _, _)
TrainTargets(f, h, scen, k, run) ==
    LET y_cols_all == WithPrefix(f, "y_")
        feat_cols  == NumericFeatCols(f)
    IN  IF k > Len(y_cols_all) THEN run
        ELSE LET y        == y_cols_all[k]
                 d        == dropna(f, y)
                 train_df == train_rows(d, h)
                 test_df  == test_rows(d, h)
                 split    == [train_df |-> train_df, test_df |-> test_df, fitted |-> FALSE]
             IN  IF NRows(test_df) = 0 \/ NRows(train_df) = 0
                 THEN TrainTargets(f, h, scen, k + 1,
                                   [run EXCEPT !.splits = [@ EXCEPT ![y] = split]])
                 ELSE IF FitFatal(train_df, feat_cols)
                 THEN [run EXCEPT !.splits = [@ EXCEPT ![y] = split], !.result = "fit_fatal"]
                 ELSE LET mae  == Rotate(scen, k)
                          rows == MkSeq(Len(Candidates), LAMBDA c :
                                      <<y, Candidates[c], h, mae[c], Num(NRows(train_df)),
                                        Num(NRows(test_df)), Num(Len(feat_cols))>>)
                          best == [model     |-> Candidates[Best(mae)],
                                   feat_cols |-> feat_cols,
                                   y_mean    |-> MeanMinPeriods(Column(train_df, y), 1)]
                      IN  TrainTargets(f, h, scen, k + 1,
                              [run EXCEPT !.splits = [@ EXCEPT ![y] = [split EXCEPT !.fitted = TRUE]],
                                          !.models = [@ EXCEPT ![y] = best],
                                          !.report_rows = @ \o rows])

\* lines 52-127 on the table read: the artifacts on disk are old, the splits and the
\* report rows start empty
TrainRun(table, old, scen) ==
    LET f   == SeasonRows(table)
        run == TrainTargets(f, holdout_season(f), scen, 1,
                   [models |-> old, splits |-> NoSplits, report_rows |-> << >>, result |-> "ok"])
    IN  IF run.result = "ok" /\ run.report_rows = << >>
        THEN [run EXCEPT !.result = "report_fatal"]
        ELSE run

---------------------------------------------------------------------------
(* 07_project_upcoming_games_team.py : main *)

\* line 15: the projector's own copy of the map
TEAM_MAP_projector(code) ==
    CASE code = "LA"  -> "LAK"
      [] code = "NJ"  -> "NJD"
      [] code = "SJ"  -> "SJS"
      [] code = "TB"  -> "TBL"
      [] code = "WAS" -> "WSH"
      [] OTHER        -> code

\* lines 150-151: astype(str).str.strip().replace(TEAM_MAP)
NormalizeSchedTeam(code) == TEAM_MAP_projector(Strip(code))

\* the columns of a schedule get_schedule returns; dates are day numbers
SchedCols == <<"gameId", "gameDateUTC", "homeTeam", "awayTeam", "scheduleDate">>

\* the targets of the statistics one provider file carries
ProjTargetsSeen == <<"y_goalsFor", "y_shotsOnGoalFor">>

\* lines 131-135
ProjTargets ==
    <<"y_goalsFor", "y_goalsAgainst", "y_shotsOnGoalFor", "y_shotsOnGoalAgainst",
      "y_xGoalsFor", "y_xGoalsAgainst">>

\* line 121
FeatCols(team_feat) == WithPrefix(team_feat, "team_")

\* the first row of every team
head_per_team(sorted) ==
    LET team == Column(sorted, "team")
    IN  Take(sorted, SelectSeq(MkSeq(NRows(sorted), LAMBDA r : r),
                               LAMBDA r : \A q \in 1..(r - 1) : team[q] # team[r]))

\* groupby("team", as_index=False).tail(1): the last row of every team
TailPerTeam(sorted) ==
    LET team == Column(sorted, "team")
        n    == NRows(sorted)
    IN  Take(sorted, SelectSeq(MkSeq(n, LAMBDA r : r),
                               LAMBDA r : \A q \in (r + 1)..n : team[q] # team[r]))

\* lines 118-119
DatedRows(team_feat) == dropna(dropna(ensure_dt(team_feat, "gameDate"), "team"), "gameDate")

\* lines 122-128
LatestOf(dated, feat_cols) ==
    Rename(Select(TailPerTeam(sort_values(dated, <<"team", "gameDate">>)),
                  <<"team", "gameDate">> \o feat_cols),
           "gameDate", "last_gameDate")

team_latest(team_feat) == LatestOf(DatedRows(team_feat), FeatCols(team_feat))

\* lines 150-152
NormalizedSched(sched) ==
    SetCol(MapCol(MapCol(sched, "homeTeam", NormalizeSchedTeam), "awayTeam", NormalizeSchedTeam),
           "scheduleDate_dt", Column(sched, "scheduleDate"))

\* rename(columns={c: f"{side}_{c}" for c in feat_cols})
PrefixCols(f, feat_cols, side) ==
    Frame(MkSeq(Len(f.cols), LAMBDA i :
              IF \E k \in 1..Len(feat_cols) : feat_cols[k] = f.cols[i]
              THEN side \o "_" \o f.cols[i] ELSE f.cols[i]),
          f.data)

\* lines 154-156 and 158-160: the snapshot of the side's team, joined to every game
JoinLeg(games, latest, feat_cols, side) ==
    Rename(PrefixCols(DropCol(merge_left(games, latest, <<side \o "Team">>, <<"team">>), "team"),
                      feat_cols, side),
           "last_gameDate", side \o "_last_gameDate")

\* lines 162-163
RestDays(full, side) ==
    LET day  == Column(full, "scheduleDate_dt")
        last == Column(full, side \o "_last_gameDate")
    IN  MkSeq(NRows(full), LAMBDA r : RSub(day[r], last[r]))

WithRestDays(full) ==
    SetCol(SetCol(full, "home_rest_days", RestDays(full, "home")),
           "away_rest_days", RestDays(full, "away"))

\* lines 154-163
FullTable(sched, latest, feat_cols) ==
    WithRestDays(JoinLeg(JoinLeg(NormalizedSched(sched), latest, feat_cols, "home"),
                         latest, feat_cols, "away"))

\* predict raises when the columns it is given are not the columns of the fit
PredictFatal(fitted, feat_cols) ==
    \E k \in 1..Len(ProjTargets) : fitted[ProjTargets[k]].feat_cols # feat_cols

\* m.predict(X), one row: a fitted pipeline is a function of its training rows and of
\* the feature row, not linear in either; it is represented by the training mean of the
\* target scaled by one plus the sum of the features the row has
Predict(m, x) == RMul(m.y_mean, RAdd(Num(1), SumSeq(SelectSeq(x, LAMBDA v : ~IsNull(v)))))

\* lines 165-168, one row and one target
predict_team(full, feat_cols, fitted, side, r, y) ==
    Predict(fitted[y], MkSeq(Len(feat_cols), LAMBDA k : Cell(full, r, side \o "_" \o feat_cols[k])))

\* the first prediction alone
blend_first(a, b) == a

\* 0.5 * a + 0.5 * b
Blend(a, b) == RAdd(RMul(Frac(1, 2), a), RMul(Frac(1, 2), b))

OutCols ==
    <<"gameId", "scheduleDate", "homeTeam", "awayTeam", "home_rest_days", "away_rest_days",
      "home_goals", "away_goals", "home_sog", "away_sog", "home_xg", "away_xg",
      "proj_total_goals", "proj_total_sog">>

\* lines 173-184, one row
OutRow(full, feat_cols, fitted, r) ==
    LET hp(y) == predict_team(full, feat_cols, fitted, "home", r, y)
        ap(y) == predict_team(full, feat_cols, fitted, "away", r, y)
        home_goals == Blend(hp("y_goalsFor"), ap("y_goalsAgainst"))
        away_goals == Blend(ap("y_goalsFor"), hp("y_goalsAgainst"))
        home_sog   == Blend(hp("y_shotsOnGoalFor"), ap("y_shotsOnGoalAgainst"))
        away_sog   == Blend(ap("y_shotsOnGoalFor"), hp("y_shotsOnGoalAgainst"))
        home_xg    == Blend(hp("y_xGoalsFor"), ap("y_xGoalsAgainst"))
        away_xg    == Blend(ap("y_xGoalsFor"), hp("y_xGoalsAgainst"))
    IN  KeyOf(full, SubSeq(OutCols, 1, 6), r)
            \o <<home_goals, away_goals, home_sog, away_sog, home_xg, away_xg,
                 RAdd(home_goals, away_goals), RAdd(home_sog, away_sog)>>

\* lines 173-186
Blended(full, feat_cols, fitted) ==
    sort_values(Frame(OutCols, MkSeq(NRows(full), LAMBDA r : OutRow(full, feat_cols, fitted, r))),
                <<"scheduleDate", "homeTeam", "awayTeam">>)

\* lines 150-186: the table written for a schedule that has games
Projections(team_feat, fitted, sched) ==
    Blended(FullTable(sched, team_latest(team_feat), FeatCols(team_feat)),
            FeatCols(team_feat), fitted)

---------------------------------------------------------------------------
(* common.py : parse_game_date, first_existing_col, standardize_team_game_cols *)

\* a date as a file spells it in eight digits, YYYYMMDD, is the triple <<y, m, d>>
IsLeap(y) == (y % 4 = 0 /\ y % 100 # 0) \/ y % 400 = 0

DaysInMonth(y, m) ==
    IF m = 2 THEN (IF IsLeap(y) THEN 29 ELSE 28)
    ELSE IF m \in {4, 6, 9, 11} THEN 30 ELSE 31

DaysInYear(y) == IF IsLeap(y) THEN 366 ELSE 365

EpochYear == Num(2021)[1]

\* the leap years among the years 1..y
LeapsUpTo(y) == (y \div 4) - (y \div 100) + (y \div 400)

\* days from the first day of the epoch year to the first day of year y
DaysBeforeYear(y) == 365 * (y - EpochYear) + LeapsUpTo(y - 1) - LeapsUpTo(EpochYear - 1)

RECURSIVE DaysBeforeMonth(_, _)
DaysBeforeMonth(y, m) == IF m <= 1 THEN 0 ELSE DaysInMonth(y, m - 1) + DaysBeforeMonth(y, m - 1)

\* the day number of a date: days since the first day of the epoch year
DayNumber(y, m, d) == DaysBeforeYear(y) + DaysBeforeMonth(y, m) + d - 1

IsDate(y, m, d) == y >= 1 /\ m \in 1..12 /\ d \in 1..DaysInMonth(y, m)

\* every triple is read as a date
ymd_unchecked(s) == Num(DayNumber(s[1], s[2], s[3]))

\* pd.to_datetime(s, format="%Y%m%d", errors="coerce") on the digits split into year,
\* month and day
ymd_to_datetime(s) ==
    IF IsDate(s[1], s[2], s[3]) THEN Num(DayNumber(s[1], s[2], s[3])) ELSE NULL

Digits == "0123456789"

IsDigit(ch) == \E k \in 1..10 : SubSeq(Digits, k, k) = ch

DigitOf(ch) == (CHOOSE k \in 1..10 : SubSeq(Digits, k, k) = ch) - 1

\* str.isdigit() of a non-empty string
AllDigits(t) == Len(t) > 0 /\ \A i \in 1..Len(t) : IsDigit(SubSeq(t, i, i))

RECURSIVE ToNat(_)
ToNat(t) == IF Len(t) = 0 THEN 0
            ELSE 10 * ToNat(SubSeq(t, 1, Len(t) - 1)) + DigitOf(SubSeq(t, Len(t), Len(t)))

\* n written with at least width digits
RECURSIVE Padded(_, _)
Padded(n, width) ==
    IF width <= 1 /\ n < 10 THEN SubSeq(Digits, n + 1, n + 1)
    ELSE Padded(n \div 10, width - 1) \o SubSeq(Digits, (n % 10) + 1, (n % 10) + 1)

SecondsPerDay == 24 * 60 * 60

\* year and day of the year (from 0) of a day number, starting the search at year y
RECURSIVE YearAndDay(_, _)
YearAndDay(n, y) ==
    IF n < 0 THEN YearAndDay(n + DaysInYear(y - 1), y - 1)
    ELSE IF n >= DaysInYear(y) THEN YearAndDay(n - DaysInYear(y), y + 1)
    ELSE <<y, n>>

\* month and day of the month of the day n (from 0) of year y, starting at month m
RECURSIVE MonthAndDay(_, _, _)
MonthAndDay(y, n, m) ==
    IF n >= DaysInMonth(y, m) THEN MonthAndDay(y, n - DaysInMonth(y, m), m + 1)
    ELSE <<m, n + 1>>

\* str(ts) of a Timestamp: "YYYY-MM-DD HH:MM:SS"
StrOfDay(yd) ==
    Padded(yd[1], 4) \o "-" \o Padded(MonthAndDay(yd[1], yd[2], 1)[1], 2)
                     \o "-" \o Padded(MonthAndDay(yd[1], yd[2], 1)[2], 2)

StrOfTime(secs) ==
    Padded(secs \div 3600, 2) \o ":" \o Padded((secs % 3600) \div 60, 2) \o ":" \o Padded(secs % 60, 2)

\* the seconds into the day; a Timestamp here is a whole number of seconds, so the
\* denominator divides the seconds of a day
SecondsOf(ts) == (ts[1] % ts[2]) * (SecondsPerDay \div ts[2])

\* a year not after the year of day number n
YearBelow(n) == EpochYear + (n \div 366)

DayOf(ts) == ts[1] \div ts[2]

str_timestamp(ts) ==
    StrOfDay(YearAndDay(DayOf(ts) - DaysBeforeYear(YearBelow(DayOf(ts))), YearBelow(DayOf(ts))))
        \o " " \o StrOfTime(SecondsOf(ts))

\* the date "YYYY-MM-DD" at the head of t, NULL when it is none
IsoDate(t) ==
    IF /\ Len(t) >= 10
       /\ AllDigits(SubSeq(t, 1, 4)) /\ SubSeq(t, 5, 5) = "-"
       /\ AllDigits(SubSeq(t, 6, 7)) /\ SubSeq(t, 8, 8) = "-"
       /\ AllDigits(SubSeq(t, 9, 10))
    THEN ymd_to_datetime(<<ToNat(SubSeq(t, 1, 4)), ToNat(SubSeq(t, 6, 7)), ToNat(SubSeq(t, 9, 10))>>)
    ELSE NULL

\* the seconds of the time " HH:MM:SS" (or "THH:MM:SS") that follows the date, -1 when
\* it is none
IsoSeconds(t) ==
    IF /\ Len(t) = 19
       /\ SubSeq(t, 11, 11) \in {" ", "T"}
       /\ AllDigits(SubSeq(t, 12, 13)) /\ SubSeq(t, 14, 14) = ":"
       /\ AllDigits(SubSeq(t, 15, 16)) /\ SubSeq(t, 17, 17) = ":"
       /\ AllDigits(SubSeq(t, 18, 19))
       /\ ToNat(SubSeq(t, 12, 13)) < 24 /\ ToNat(SubSeq(t, 15, 16)) < 60
       /\ ToNat(SubSeq(t, 18, 19)) < 60
    THEN 3600 * ToNat(SubSeq(t, 12, 13)) + 60 * ToNat(SubSeq(t, 15, 16)) + ToNat(SubSeq(t, 18, 19))
    ELSE -1

\* pd.to_datetime(s, errors="coerce") of a string: a date in ISO form, alone or followed
\* by a time, is read; any other text of the tables modelled here is no date
to_datetime(t) ==
    IF Len(t) = 10 THEN IsoDate(t)
    ELSE IF IsoSeconds(t) >= 0
    THEN RAdd(IsoDate(t), Frac(IsoSeconds(t), SecondsPerDay))
    ELSE NULL

\* the digits of an eight-digit string split into year, month and day
SplitYmd(t) == <<ToNat(SubSeq(t, 1, 4)), ToNat(SubSeq(t, 5, 6)), ToNat(SubSeq(t, 7, 8))>>

\* lines 80-83, s a text
parse_text(t) ==
    IF AllDigits(t) /\ Len(t) = 8 THEN ymd_to_datetime(SplitYmd(t)) ELSE to_datetime(t)

\* lines 77-83.  A cell of two components is a number: the null marker or a Timestamp,
\* which str() writes out before it is read again; a cell of three components is an
\* eight-digit value already split into year, month and day; any other cell is a text
\* (the texts of the tables modelled here are longer than three characters or empty)
parse_game_date(s) ==
    IF Len(s) = 2 THEN (IF IsNull(s) THEN NULL ELSE parse_text(Strip(str_timestamp(s))))
    ELSE IF Len(s) = 3 THEN ymd_to_datetime(s)
    ELSE parse_text(Strip(s))

\* the last candidate that is a column
RECURSIVE last_existing_col(_, _)
last_existing_col(f, candidates) ==
    IF Len(candidates) = 0 THEN NoCol
    ELSE IF HasCol(f, candidates[Len(candidates)]) THEN candidates[Len(candidates)]
    ELSE last_existing_col(f, SubSeq(candidates, 1, Len(candidates) - 1))

\* lines 94-98
RECURSIVE first_existing_col(_, _)
first_existing_col(f, candidates) ==
    IF Len(candidates) = 0 THEN NoCol
    ELSE IF HasCol(f, Head(candidates)) THEN Head(candidates)
    ELSE first_existing_col(f, Tail(candidates))

TeamAliases == <<"playerTeam", "teamAbbrev", "teamCode">>
OppAliases == <<"opposingTeam", "opponentTeam", "oppTeam", "opponent">>
GameIdAliases == <<"game_id", "gamePk", "id">>
DateAliases == <<"date">>
HomeAwayAliases == <<"homeOrAway", "homeAway">>

\* if canon not in df.columns: c = first_existing_col(df, aliases); if c: df[canon] = df[c]
FillFrom(f, canon, aliases) ==
    IF HasCol(f, canon) \/ first_existing_col(f, aliases) = NoCol THEN f
    ELSE SetCol(f, canon, Column(f, first_existing_col(f, aliases)))

\* df[col] with every cell parsed
ParsedDates(f, col) == MkSeq(NRows(f), LAMBDA r : parse_game_date(Cell(f, r, col)))

\* lines 119-124
FillDate(f) ==
    IF HasCol(f, "gameDate") THEN SetCol(f, "gameDate", ParsedDates(f, "gameDate"))
    ELSE IF first_existing_col(f, DateAliases) = NoCol THEN f
    ELSE SetCol(f, "gameDate", ParsedDates(f, first_existing_col(f, DateAliases)))

\* lines 131-132
FillSituation(f) ==
    IF HasCol(f, "situation") THEN f
    ELSE SetCol(f, "situation", MkSeq(NRows(f), LAMBDA r : "all"))

\* lines 101-134
standardize_team_game_cols(f) ==
    FillSituation(
        FillFrom(
            FillDate(
                FillFrom(FillFrom(FillFrom(f, "team", TeamAliases), "team_opp", OppAliases),
                         "gameId", GameIdAliases)),
            "home_or_away", HomeAwayAliases))

---------------------------------------------------------------------------
(* 01_moneypuck_scrape.py : the loaders and the processed tables *)

\* a missing cell of a text column, as astype(str) spells it
NaText == "nan"

NaOf(c) == IF c \in TextCols THEN NaText ELSE NULL

UpperCase == "ABCDEFGHIJKLMNOPQRSTUVWXYZ"
LowerCase == "abcdefghijklmnopqrstuvwxyz"

LowerChar(ch) ==
    IF \E i \in 1..Len(UpperCase) : SubSeq(UpperCase, i, i) = ch
    THEN LET i == CHOOSE j \in 1..Len(UpperCase) : SubSeq(UpperCase, j, j) = ch
         IN  SubSeq(LowerCase, i, i)
    ELSE ch

\* str.lower()
RECURSIVE Lower(_)
Lower(s) == IF Len(s) = 0 THEN s ELSE LowerChar(SubSeq(s, 1, 1)) \o Lower(SubSeq(s, 2, Len(s)))

\* the columns of the frames in the order of their first appearance
RECURSIVE UnionCols(_, _)
UnionCols(frames, acc) ==
    IF Len(frames) = 0 THEN acc
    ELSE UnionCols(Tail(frames),
                   acc \o SelectSeq(Head(frames).cols,
                                    LAMBDA c : \A k \in 1..Len(acc) : acc[k] # c))

\* the rows of f under the columns cols, a column f lacks being missing in every row
Widen(f, cols) ==
    MkSeq(NRows(f), LAMBDA r :
        MkSeq(Len(cols), LAMBDA k :
            IF HasCol(f, cols[k]) THEN Cell(f, r, cols[k]) ELSE NaOf(cols[k])))

ConcatUnder(frames, cols) ==
    Frame(cols, Flatten(MkSeq(Len(frames), LAMBDA i : Widen(frames[i], cols))))

\* pd.concat(dfs, ignore_index=True) of at least one frame
Concat(frames) == ConcatUnder(frames, UnionCols(frames, << >>))

\* no row is left out
keep_every_situation(f) == f

\* df[df["situation"].astype(str).str.lower().eq("all")]
situation_all(f) ==
    Frame(f.cols, SelectSeq(f.data, LAMBDA row : Lower(row[ColIdx(f, "situation")]) = "all"))

\* df[df["season"].between(start_season, end_season)]
between(f, start_season, end_season) ==
    Frame(f.cols,
          SelectSeq(f.data, LAMBDA row :
              /\ ~IsNull(row[ColIdx(f, "season")])
              /\ ~RLess(row[ColIdx(f, "season")], start_season)
              /\ ~RLess(end_season, row[ColIdx(f, "season")])))

\* df["gameDate"] = df["gameDate"].map(parse_game_date)
MapDates(f) == SetCol(f, "gameDate", ParsedDates(f, "gameDate"))

\* lines 62-63
TeamFromName(f, name) ==
    IF ~HasCol(f, "team") \/ \A r \in 1..NRows(f) : Cell(f, r, "team") = NaText
    THEN SetCol(f, "team", MkSeq(NRows(f), LAMBDA r : name))
    ELSE f

\* lines 56-64
TeamFilesRead(files) ==
    MkSeq(Len(files), LAMBDA i :
        TeamFromName(standardize_team_game_cols(files[i].table), files[i].name))

\* lines 68-69
SeasonFiltered(all_df, start_season, end_season) ==
    IF HasCol(all_df, "season") THEN between(all_df, start_season, end_season) ELSE all_df

\* pd.concat of no frame raises, and so does all_df["gameDate"] without such a column
TeamLoadFatal(files) ==
    Len(files) = 0 \/ ~HasCol(Concat(TeamFilesRead(files)), "gameDate")

\* lines 53-73
load_all_team_gbg_raw(files, start_season, end_season) ==
    MapDates(situation_all(SeasonFiltered(Concat(TeamFilesRead(files)), start_season, end_season)))

\* lines 78-85: the files of the season folders from start_season to end_season
VisitOrder(files, start_season, end_season) ==
    Flatten(MkSeq(end_season[1] - start_season[1] + 1, LAMBDA i :
                SelectSeq(files, LAMBDA file : file.season = Num(start_season[1] + i - 1))))

\* lines 88-89
WithSeason(f, season) ==
    IF HasCol(f, "season") THEN f ELSE SetCol(f, "season", MkSeq(NRows(f), LAMBDA r : season))

\* lines 86-91
PlayerFileRead(file, start_season, end_season) ==
    MapDates(between(WithSeason(standardize_team_game_cols(file.table), file.season),
                     start_season, end_season))

PlayerVisitFatal(visited) ==
    \/ Len(visited) = 0
    \/ \E i \in 1..Len(visited) : ~HasCol(standardize_team_game_cols(visited[i].table), "gameDate")

PlayerLoadFatal(files, start_season, end_season) ==
    PlayerVisitFatal(VisitOrder(files, start_season, end_season))

PlayerVisited(visited, start_season, end_season) ==
    situation_all(Concat(MkSeq(Len(visited), LAMBDA i :
                             PlayerFileRead(visited[i], start_season, end_season))))

\* lines 75-96
load_team_player_gbg(files, start_season, end_season) ==
    PlayerVisited(VisitOrder(files, start_season, end_season), start_season, end_season)

\* the numbers in ascending order
SortedNums(xs) ==
    MkSeq(Len(xs), LAMBDA k :
        xs[CHOOSE r \in 1..Len(xs) :
               k = 1 + Cardinality({q \in 1..Len(xs) :
                                       RLess(xs[q], xs[r]) \/ (xs[q] = xs[r] /\ q < r)})])

MiddleOf(sorted) ==
    IF Len(sorted) = 0 THEN NULL
    ELSE IF Len(sorted) % 2 = 1 THEN sorted[(Len(sorted) + 1) \div 2]
    ELSE RDiv(RAdd(sorted[Len(sorted) \div 2], sorted[Len(sorted) \div 2 + 1]), Num(2))

\* np.nanmedian
nanmedian(xs) == MiddleOf(SortedNums(SelectSeq(xs, LAMBDA v : ~IsNull(v))))

\* common.py lines 86-91: seconds become minutes when the median exceeds 200
ensure_minutes(xs) ==
    IF ~IsNull(nanmedian(xs)) /\ nanmedian(xs) # INF /\ RLess(Num(200), nanmedian(xs))
    THEN MkSeq(Len(xs), LAMBDA r : RDiv(xs[r], Num(60)))
    ELSE xs

\* lines 133-136
WithMinutes(f) ==
    IF HasCol(f, "icetime")
    THEN SetCol(f, "icetime_min",
                ensure_minutes(MkSeq(NRows(f), LAMBDA r : to_numeric("icetime", Cell(f, r, "icetime")))))
    ELSE f

---------------------------------------------------------------------------
(* Calls of rolling_features on bounded tables *)

MaxRows == 3
StreakLen == 7

NoRun == [stage |-> "none", result |-> "none"]

\* no file downloaded
NoRawDir == [teams |-> << >>, skaters |-> << >>, goalies |-> << >>]

\* no call of download_with_retries
NoDownload ==
    [max_tries |-> 0, force |-> FALSE, existing |-> "missing", out_file |-> "missing",
     i |-> 0, fetches |-> 0, last_err |-> "None", outcome |-> "none"]

NoFiles ==
    /\ team_game = NoFrame /\ skater_game = NoFrame /\ goalie_game = NoFrame
    /\ team_features = NoFrame /\ skater_features = NoFrame /\ goalie_features = NoFrame
    /\ team_model_table = NoFrame /\ skater_model_table = NoFrame /\ goalie_model_table = NoFrame
    /\ models = NoModels /\ report = NoFrame /\ splits = NoSplits
    /\ df_sched = NoFrame /\ preds = NoFrame
    /\ last_run = NoRun
    /\ raw_dir = NoRawDir
    /\ download = NoDownload

RollTeams == {"BOS", "TOR"}
RollDates == {Num(1), Num(2)}
RollVals == {NULL, Num(1), Num(3)}
\* (team, playerId) of a skater row; a row may lack its player id
RollSkaters == {<<"BOS", Num(8)>>, <<"BOS", Num(9)>>, <<"BOS", NULL>>}

TeamGroup == <<"team">>
SkaterGroup == <<"team", "playerId">>

TeamCols == <<"team", "gameDate", "x">>
SkaterCols == <<"team", "playerId", "gameDate", "x">>

\* a caller's choice of shorter windows
ShortWindows == <<1, 2>>

\* one team on the consecutive days 1..n with the values 2, 4, 6, ...
StreakTable(n) ==
    Frame(TeamCols, MkSeq(n, LAMBDA i : <<"BOS", Num(i), Num(2 * i)>>))

Rolled(f) == rolling_features(f, entity_cols, "gameDate", <<"x">>, windows, "r")

RollInit ==
    /\ pc = "input"
    /\ \/ /\ windows = DefaultWindows
          /\ entity_cols = TeamGroup
          /\ df \in {StreakTable(n) : n \in 1..StreakLen}
       \/ /\ windows = ShortWindows
          /\ entity_cols \in {TeamGroup, SkaterGroup}
          /\ df = Frame(IF entity_cols = TeamGroup THEN TeamCols ELSE SkaterCols, << >>)
    /\ out = NoFrame
    /\ NoFiles

AppendTeamRow ==
    /\ pc = "input"
    /\ entity_cols = TeamGroup
    /\ NRows(df) < MaxRows
    /\ \E t \in RollTeams, d \in RollDates, v \in RollVals :
           df' = Frame(df.cols, Append(df.data, <<t, d, v>>))
    /\ UNCHANGED <<pc, entity_cols, windows, out, filevars, raw_dir, download>>

AppendSkaterRow ==
    /\ pc = "input"
    /\ entity_cols = SkaterGroup
    /\ NRows(df) < MaxRows
    /\ \E e \in RollSkaters, d \in RollDates, v \in RollVals \ {NULL} :
           df' = Frame(df.cols, Append(df.data, <<e[1], e[2], d, v>>))
    /\ UNCHANGED <<pc, entity_cols, windows, out, filevars, raw_dir, download>>

CallRolling ==
    /\ pc = "input"
    /\ out' = Rolled(df)
    /\ pc' = "rolled"
    /\ UNCHANGED <<df, entity_cols, windows, filevars, raw_dir, download>>

\* the same call on a table that differs in one row's statistic
ReplaceStat ==
    /\ pc = "rolled"
    /\ \E j \in 1..NRows(df), v \in RollVals :
          /\ v # Cell(df, j, "x")
          /\ \E other \in {SetCol(df, "x", [Column(df, "x") EXCEPT ![j] = v])} :
                 /\ df' = other
                 /\ out' = Rolled(other)
    /\ pc' = "replaced"
    /\ UNCHANGED <<entity_cols, windows, filevars, raw_dir, download>>

RollNext == AppendTeamRow \/ AppendSkaterRow \/ CallRolling \/ ReplaceStat

SpecRoll == RollInit /\ [][RollNext]_vars

---------------------------------------------------------------------------
(* Properties of rolling_features *)

RollDone == pc \in {"rolled", "replaced"}

\* the rolling columns the call adds for the statistic x
RollColNames == {RollName("r", windows[k], "x") : k \in 1..Len(windows)}

EntityOf(f, r) == KeyOf(f, entity_cols, r)

\* a row without a null in its key columns belongs to an entity
HasEntity(f, r) == ~KeyIsNull(entity_cols, EntityOf(f, r))

DateOf(f, r) == Cell(f, r, "gameDate")

\* rows of out whose statistic differs in out'; the sort keys are untouched, so
\* row p of out and row p of out' are the same input row
Replaced == {p \in 1..NRows(out) : Cell(out, p, "x") # Cell(out', p, "x")}

SameRolling(p) == \A c \in RollColNames : Cell(out', p, c) = Cell(out, p, c)

\* C1 (no leakage): replacing the statistic of a row leaves unchanged every
\* rolling value of that row itself and of every row of the same entity at a
\* strictly earlier date.
C1_NoLeakage ==
    [][(pc = "rolled" /\ pc' = "replaced") =>
          \A q \in Replaced : \A p \in 1..NRows(out) :
              (p = q \/ (HasEntity(out, p) /\ EntityOf(out, p) = EntityOf(out, q)
                            /\ RLess(DateOf(out, p), DateOf(out, q))))
                  => SameRolling(p)]_vars

\* the last day of the streak was replaced and the day before it has a rolling value
C1_Witness ==
    /\ pc = "replaced"
    /\ windows = DefaultWindows
    /\ NRows(df) = StreakLen
    /\ \A i \in 1..(StreakLen - 1) : Cell(df, i, "x") = Num(2 * i)
    /\ Cell(df, StreakLen, "x") = Num(1)
    /\ ~IsNull(Cell(out, StreakLen - 1, RollName("r", 5, "x")))

\* C2 (strictly earlier rows only): replacing the statistic of a row changes a
\* rolling value of a row p only if the replaced row belongs to p's entity and
\* has a strictly earlier date than p; in particular not when both rows of an
\* entity carry the same date.
C2_StrictlyEarlierOnly ==
    [][(pc = "rolled" /\ pc' = "replaced") =>
          \A q \in Replaced : \A p \in 1..NRows(out) :
              ~(HasEntity(out, p) /\ EntityOf(out, p) = EntityOf(out, q)
                   /\ RLess(DateOf(out, q), DateOf(out, p)))
                  => SameRolling(p)]_vars

\* rows of p's entity that precede p in the date-ordered output
Prior(p) == SelectSeq(MkSeq(p - 1, LAMBDA q : q),
                      LAMBDA q : EntityOf(out, q) = EntityOf(out, p))

\* C3 (window mean): a row with k >= 1 earlier rows of its entity (in date
\* order) whose min(k, W) immediately preceding rows all hold a statistic has,
\* for window W, the arithmetic mean of those min(k, W) statistics.
C3_WindowMean ==
    RollDone =>
        \A p \in 1..NRows(out) : \A i \in 1..Len(windows) :
            LET prior == Prior(p)
                k     == Len(prior)
                m     == Min(k, windows[i])
                xs    == MkSeq(m, LAMBDA j : Cell(out, prior[k - m + j], "x"))
            IN  (HasEntity(out, p) /\ k >= 1 /\ \A j \in 1..m : ~IsNull(xs[j]))
                    => Cell(out, p, RollName("r", windows[i], "x")) = RDiv(SumSeq(xs), Num(m))

\* values 2,4,6,8,10,12 on six consecutive days give 6 for window 5 on the sixth
C3_Witness ==
    /\ pc = "rolled"
    /\ NRows(out) >= 6
    /\ \A i \in 1..6 : out.data[i] [1] = "BOS" /\ DateOf(out, i) = Num(i)
                          /\ Cell(out, i, "x") = Num(2 * i)
    /\ Cell(out, 6, RollName("r", 5, "x")) = Num(6)

\* C4 (first appearance): the first row of every entity in date order has a
\* null value in every rolling column.
C4_FirstAppearance ==
    RollDone =>
        \A p \in 1..NRows(out) :
            Len(Prior(p)) = 0 => \A c \in RollColNames : IsNull(Cell(out, p, c))

\* an entity's first row holds a statistic and the entity has a later row
C4_Witness ==
    /\ pc = "rolled"
    /\ \E p, q \in 1..NRows(out) :
          /\ HasEntity(out, p)
          /\ Len(Prior(p)) = 0
          /\ ~IsNull(Cell(out, p, "x"))
          /\ EntityOf(out, q) = EntityOf(out, p)
          /\ RLess(DateOf(out, p), DateOf(out, q))
          /\ ~IsNull(Cell(out, q, RollName("r", windows[1], "x")))

---------------------------------------------------------------------------
(* The pipeline on bounded processed tables: 04 then 05 *)

MaxGames == 2

\* statistic columns a team_game table may carry: none, or goals under the alias gf
\* and shots under the alias shotsFor (a row's shots are its goals + 10)
TeamStatSchemas == {<< >>, <<"gf", "shotsFor">>}
GameIds == {1, 2}
\* raw team codes: a canonical one and an alias followed by a blank
RawTeams == {"BOS", "LA "}
GoalVals == {NULL, Num(2), Num(3)}
Season == Num(2023)

RawBase == <<"gameId", "gameDate", "season", "team", "team_opp", "home_or_away", "situation">>

\* the opponent appears under its unpadded raw code
RawOpp(t) == IF t = "BOS" THEN "LA" ELSE "BOS"

\* a team_game row of game g for team t with v goals and w shots
TeamGameRow(stats, g, season, t, v, w) ==
    <<Num(g), Num(g), season, t, RawOpp(t), IF t = "BOS" THEN "HOME" ELSE "AWAY", "all">>
        \o (IF stats = << >> THEN << >> ELSE <<v, w>>)

\* identifier column of a player table: one of the aliases, or none
PidSchemas == {"playerId", "player_id", "id", "nhlPlayerId", NoCol}
PlayerIds == {8, 9}

PlayerBase(pid) == RawBase \o (IF pid = NoCol THEN << >> ELSE <<pid>>)

SkaterGameCols(pid) == PlayerBase(pid) \o <<"icetime_min", "goals">>
SkaterGameRow(pid, g, p) ==
    <<Num(g), Num(g), Season, "BOS", "LA", "HOME", "all">>
        \o (IF pid = NoCol THEN << >> ELSE <<Num(p)>>) \o <<Num(15), Num(p - 7)>>

GoalieGameCols(pid) == PlayerBase(pid) \o <<"icetime_min", "goalsAgainst", "shotsAgainst">>
GoalieGameRow(pid, g, p) ==
    <<Num(g), Num(g), Season, "BOS", "LA", "HOME", "all">>
        \o (IF pid = NoCol THEN << >> ELSE <<Num(p + 22)>>) \o <<Num(60), Num(p - 6), Num(20)>>

\* files that record no ice-time, with and without an identifier column
NoToiSchemas == {"playerId", NoCol}
WithoutToi(cols) == SelectSeq(cols, LAMBDA c : c # "icetime_min")

\* the tables 01 wrote for the entities the run does not vary
OneTeamGame ==
    Frame(RawBase \o <<"gf", "shotsFor">>,
          <<TeamGameRow(<<"gf", "shotsFor">>, 1, Season, "BOS", Num(2), Num(12))>>)
OneSkaterGame == Frame(SkaterGameCols("playerId"), <<SkaterGameRow("playerId", 1, 8)>>)
OneGoalieGame == Frame(GoalieGameCols("playerId"), <<GoalieGameRow("playerId", 1, 8)>>)

NoCall == /\ df = NoFrame /\ entity_cols = << >> /\ windows = << >> /\ out = NoFrame

NoOutputs ==
    /\ team_features = NoFrame /\ skater_features = NoFrame /\ goalie_features = NoFrame
    /\ team_model_table = NoFrame /\ skater_model_table = NoFrame /\ goalie_model_table = NoFrame
    /\ models = NoModels /\ report = NoFrame /\ splits = NoSplits
    /\ df_sched = NoFrame /\ preds = NoFrame
    /\ last_run = NoRun
    /\ raw_dir = NoRawDir
    /\ download = NoDownload

\* 01 is loading one of the three game-by-game families; the other two are written
AssembleInit ==
    /\ NoCall
    /\ NoOutputs
    /\ \/ /\ pc = "team_gbg"
          /\ team_game \in {Frame(RawBase \o stats, << >>) : stats \in TeamStatSchemas}
          /\ skater_game = OneSkaterGame
          /\ goalie_game = OneGoalieGame
       \/ /\ pc = "skater_gbg"
          /\ team_game = OneTeamGame
          /\ skater_game \in {Frame(SkaterGameCols(pid), << >>) : pid \in PidSchemas}
                               \cup {Frame(WithoutToi(SkaterGameCols(pid)), << >>) : pid \in NoToiSchemas}
          /\ goalie_game = OneGoalieGame
       \/ /\ pc = "goalie_gbg"
          /\ team_game = OneTeamGame
          /\ skater_game = OneSkaterGame
          /\ goalie_game \in {Frame(GoalieGameCols(pid), << >>) : pid \in PidSchemas}
                               \cup {Frame(WithoutToi(GoalieGameCols(pid)), << >>) : pid \in NoToiSchemas}

StatsOf(f) == SubSeq(f.cols, Len(RawBase) + 1, Len(f.cols))
PidOf(f) == IF f.cols[Len(RawBase) + 1] \in PidSchemas \ {NoCol}
            THEN f.cols[Len(RawBase) + 1] ELSE NoCol

\* the cells of a row of the columns fullcols that fall under the columns of f
RowUnder(f, fullcols, fullrow) ==
    MkSeq(Len(f.cols), LAMBDA k : fullrow[CHOOSE i \in 1..Len(fullcols) : fullcols[i] = f.cols[k]])

\* 01 appends the rows of one more file; nothing keeps a game from being loaded twice
LoadTeamGame ==
    /\ pc = "team_gbg"
    /\ NRows(team_game) < MaxGames
    /\ \E g \in GameIds, t \in RawTeams, v \in GoalVals :
           team_game' = Frame(team_game.cols,
                Append(team_game.data,
                       TeamGameRow(StatsOf(team_game), g, Season, t, v, RAdd(v, Num(10)))))
    /\ UNCHANGED <<pc, callvars, skater_game, goalie_game, featvars, modelvars, trainvars, projvars, last_run, raw_dir, download>>

LoadSkaterGame ==
    /\ pc = "skater_gbg"
    /\ NRows(skater_game) < MaxGames
    /\ \E g \in GameIds, p \in PlayerIds :
           skater_game' = Frame(skater_game.cols,
                Append(skater_game.data,
                       RowUnder(skater_game, SkaterGameCols(PidOf(skater_game)),
                                SkaterGameRow(PidOf(skater_game), g, p))))
    /\ UNCHANGED <<pc, callvars, team_game, goalie_game, featvars, modelvars, trainvars, projvars, last_run, raw_dir, download>>

LoadGoalieGame ==
    /\ pc = "goalie_gbg"
    /\ NRows(goalie_game) < MaxGames
    /\ \E g \in GameIds, p \in PlayerIds :
           goalie_game' = Frame(goalie_game.cols,
                Append(goalie_game.data,
                       RowUnder(goalie_game, GoalieGameCols(PidOf(goalie_game)),
                                GoalieGameRow(PidOf(goalie_game), g, p))))
    /\ UNCHANGED <<pc, callvars, team_game, skater_game, featvars, modelvars, trainvars, projvars, last_run, raw_dir, download>>

Ran(stage, result) == [stage |-> stage, result |-> result]

\* 04 main: the three processed tables are read first; the team table is written before
\* the skater table is looked at, the skater table before the goalie table; a
\* RuntimeError ends the run there
BuildFeatures ==
    /\ IF team_game = NoFrame \/ skater_game = NoFrame \/ goalie_game = NoFrame
       THEN /\ last_run' = Ran("features", "read_fatal")
            /\ UNCHANGED <<pc, featvars>>
       ELSE /\ pc' = "features"
            /\ team_features' = TeamFeatures(team_game)
            /\ IF SkaterFatal(skater_game)
               THEN /\ last_run' = Ran("features", "skater_fatal")
                    /\ UNCHANGED <<skater_features, goalie_features>>
               ELSE /\ skater_features' = SkaterFeatures(skater_game)
                    /\ IF GoalieFatal(goalie_game)
                       THEN /\ last_run' = Ran("features", "goalie_fatal")
                            /\ UNCHANGED goalie_features
                       ELSE /\ goalie_features' = GoalieFeatures(goalie_game)
                            /\ last_run' = Ran("features", "ok")
    /\ UNCHANGED <<callvars, rawvars, modelvars, trainvars, projvars, raw_dir, download>>

\* 05 main: the six tables are read first; a missing file ends the run before any write
\* the team model table is written over the team features as well
BuildModelTablesOverFeatures ==
    /\ team_features # NoFrame /\ skater_features # NoFrame /\ goalie_features # NoFrame
    /\ team_model_table' = TeamModelTable(team_game, team_features)
    /\ team_features' = TeamModelTable(team_game, team_features)
    /\ skater_model_table' =
           PlayerModelTable(skater_game, skater_features, skater_targets, "sk_")
    /\ goalie_model_table' =
           PlayerModelTable(goalie_game, goalie_features, goalie_targets, "go_")
    /\ last_run' = Ran("model_data", "ok")
    /\ pc' = "model_data"
    /\ UNCHANGED <<callvars, rawvars, skater_features, goalie_features, trainvars, projvars,
                   raw_dir, download>>

BuildModelTables ==
    /\ IF team_features = NoFrame \/ skater_features = NoFrame \/ goalie_features = NoFrame
       THEN /\ last_run' = Ran("model_data", "read_fatal")
            /\ UNCHANGED <<pc, modelvars>>
       ELSE /\ team_model_table' = TeamModelTable(team_game, team_features)
            /\ skater_model_table' =
                   PlayerModelTable(skater_game, skater_features, skater_targets, "sk_")
            /\ goalie_model_table' =
                   PlayerModelTable(goalie_game, goalie_features, goalie_targets, "go_")
            /\ last_run' = Ran("model_data", "ok")
            /\ pc' = "model_data"
    /\ UNCHANGED <<callvars, rawvars, featvars, trainvars, projvars, raw_dir, download>>

AssembleNext ==
    \/ LoadTeamGame
    \/ LoadSkaterGame
    \/ LoadGoalieGame
    \/ BuildFeatures
    \/ BuildModelTables

SpecAssemble == AssembleInit /\ [][AssembleNext]_vars

ModelTablesBuilt == last_run = Ran("model_data", "ok")

\* rows of the raw team table of the game and team that row r of the team model table names
RawRowsOf(r) ==
    {q \in 1..NRows(team_game) :
        /\ Cell(team_game, q, "gameId") = Cell(team_model_table, r, "gameId")
        /\ Cell(team_game, q, "team") = Cell(team_model_table, r, "team")}

\* C5: every model table has as many rows as the feature table it was built from,
\* whatever the raw game tables hold - rows without a match, or several rows of one key
C5_JoinSafety ==
    ModelTablesBuilt =>
        /\ NRows(team_model_table) = NRows(team_features)
        /\ NRows(skater_model_table) = NRows(skater_features)
        /\ NRows(goalie_model_table) = NRows(goalie_features)

\* C6: in every row of the team model table, each y_ target holds the value that a raw
\* team_game row of the same gameId and the same team has in the column resolved for the
\* target, and it is null when the raw table has no such row; a target with no resolved
\* column has no y_ column
C6_TeamTargets ==
    ModelTablesBuilt =>
        \A k \in 1..Len(team_targets) :
            LET yname == team_targets[k][1]
                col   == pick_col(team_game, team_targets[k][2])
            IN  IF col = NoCol THEN ~HasCol(team_model_table, yname)
                ELSE /\ HasCol(team_model_table, yname)
                     /\ \A r \in 1..NRows(team_model_table) :
                            LET y == Cell(team_model_table, r, yname)
                            IN  IF RawRowsOf(r) = {} THEN IsNull(y)
                                ELSE \E q \in RawRowsOf(r) : y = Cell(team_game, q, col)

\* a table in which one row got the goals and shots of its own game and a row of the team
\* with no raw row under its code got nulls
C6_Witness ==
    /\ ModelTablesBuilt
    /\ HasCol(team_model_table, "y_goalsFor")
    /\ \E r1, r2 \in 1..NRows(team_model_table) :
           /\ Cell(team_model_table, r1, "team") = "BOS"
           /\ Cell(team_model_table, r1, "y_goalsFor") = Num(3)
           /\ Cell(team_model_table, r1, "y_shotsOnGoalFor") = Num(13)
           /\ Cell(team_model_table, r2, "team") = "LAK"
           /\ RawRowsOf(r2) = {}
           /\ IsNull(Cell(team_model_table, r2, "y_goalsFor"))

\* C7: the skater and the goalie model table have the playerId column, whatever alias
\* of it the raw table uses
C7_PlayerIdRetained ==
    ModelTablesBuilt =>
        /\ HasCol(skater_model_table, "playerId")
        /\ HasCol(goalie_model_table, "playerId")

\* the raw table has a column under one of the names
HasAlias(raw, aliases) == \E k \in 1..Len(aliases) : HasCol(raw, aliases[k])

\* the raw table of an entity kind lacks a required column
Lacks(raw) == ~HasAlias(raw, PidAliases) \/ ~HasAlias(raw, ToiAliases)

\* C17: a feature build on a skater table that has no alias of playerId or no alias of
\* the ice-time ends with the skater error and no skater feature table; on a goalie
\* table that has no alias of playerId or no alias of the ice-time (the skater table
\* being complete) it ends with the goalie error and no goalie feature table
C17_RequiredColumns ==
    last_run.stage = "features" =>
        /\ Lacks(skater_game) =>
               last_run.result = "skater_fatal" /\ skater_features = NoFrame
        /\ (~Lacks(skater_game) /\ Lacks(goalie_game)) =>
               last_run.result = "goalie_fatal" /\ goalie_features = NoFrame

---------------------------------------------------------------------------
(* The pipeline up to the trainer, on team tables that span seasons *)

FirstSeason == Num(2021)
NextSeason == Num(2022)
TrainSeasons == {NULL, FirstSeason, NextSeason}
TrainGoals == {NULL, Num(2)}
TrainShots == {NULL, Num(12)}
MaeVals == {Num(1), Num(2)}
\* the holdout errors of ridge, hgb and rf
MaeScenarios == {<<a, b, c>> : a \in MaeVals, b \in MaeVals, c \in MaeVals}

\* the first two games of the first season; the second has no shots recorded
SeasonStart ==
    Frame(RawBase \o <<"gf", "shotsFor">>,
          <<TeamGameRow(<<"gf", "shotsFor">>, 1, FirstSeason, "BOS", Num(2), Num(12)),
            TeamGameRow(<<"gf", "shotsFor">>, 2, FirstSeason, "BOS", Num(3), NULL)>>)

\* the same two games in files that record no statistic at all
SeasonStartBare ==
    Frame(RawBase,
          <<TeamGameRow(<< >>, 1, FirstSeason, "BOS", NULL, NULL),
            TeamGameRow(<< >>, 2, FirstSeason, "BOS", NULL, NULL)>>)

TrainInit ==
    /\ NoCall
    /\ NoOutputs
    /\ pc = "team_seasons"
    /\ team_game \in {SeasonStart, SeasonStartBare}
    /\ skater_game = OneSkaterGame
    /\ goalie_game = OneGoalieGame

\* the next game of the team, in a season the file names and with what it recorded
LoadSeasonGame ==
    /\ pc = "team_seasons"
    /\ NRows(team_game) < NRows(SeasonStart) + MaxGames
    /\ \E season \in TrainSeasons, v \in TrainGoals, w \in TrainShots :
           team_game' = Frame(team_game.cols,
                Append(team_game.data,
                       TeamGameRow(StatsOf(team_game), NRows(team_game) + 1, season, "BOS", v, w)))
    /\ UNCHANGED <<pc, callvars, skater_game, goalie_game, featvars, modelvars, trainvars, projvars, last_run, raw_dir, download>>

\* 06 main, the holdout errors of the run being scen
TrainWith(scen) ==
    /\ IF team_model_table = NoFrame
       THEN /\ last_run' = Ran("models", "read_fatal")
            /\ splits' = NoSplits
            /\ UNCHANGED <<models, report>>
       ELSE IF ~HasCol(team_model_table, "season") \/ HoldoutFatal(team_model_table)
       THEN /\ last_run' = Ran("models", "holdout_fatal")
            /\ splits' = NoSplits
            /\ UNCHANGED <<models, report>>
       ELSE \E run \in {TrainRun(team_model_table, models, scen)} :
                /\ models' = run.models
                /\ splits' = run.splits
                /\ report' = IF run.result = "ok"
                             THEN sort_values(Frame(ReportCols, run.report_rows),
                                              <<"target", "MAE">>)
                             ELSE report
                /\ last_run' = Ran("models", run.result)
    /\ UNCHANGED <<pc, callvars, rawvars, featvars, modelvars, projvars, raw_dir, download>>

TrainTeamModels == \E scen \in MaeScenarios : TrainWith(scen)

TrainNext ==
    \/ LoadSeasonGame
    \/ BuildFeatures
    \/ BuildModelTables
    \/ TrainTeamModels

SpecTrain == TrainInit /\ [][TrainNext]_vars

TrainerRan == last_run.stage = "models" /\ last_run.result \in {"ok", "fit_fatal", "report_fatal"}

\* the maximum non-null season of the team model table
MaxSeason ==
    LET seasons == {Cell(team_model_table, r, "season") : r \in 1..NRows(team_model_table)} \ {NULL}
    IN  CHOOSE h \in seasons : \A s \in seasons : ~RLess(h, s)

\* the rows of the team model table with a target y and a season that satisfies Q
RowsWith(y, Q(_)) ==
    LET yk == ColIdx(team_model_table, y)
        sk == ColIdx(team_model_table, "season")
    IN  SelectSeq(team_model_table.data,
                  LAMBDA row : ~IsNull(row[yk]) /\ ~IsNull(row[sk]) /\ Q(row[sk]))

\* C10: with H the maximum non-null season of the model table, every target the trainer
\* fitted was fitted on exactly the rows with a non-null target and a season below H and
\* evaluated on exactly the rows with a non-null target and season H; the two sets share
\* no row and no row of season H is among the fitting rows
C10_TrainerSplit ==
    TrainerRan =>
        \A y \in TeamTargetNames :
            splits[y].fitted =>
                LET train == splits[y].train_df.data
                    test  == splits[y].test_df.data
                    sk    == ColIdx(team_model_table, "season")
                IN  /\ train = RowsWith(y, LAMBDA s : RLess(s, MaxSeason))
                    /\ test = RowsWith(y, LAMBDA s : s = MaxSeason)
                    /\ \A i \in 1..Len(train), j \in 1..Len(test) : train[i] # test[j]
                    /\ \A i \in 1..Len(train) : train[i][sk] # MaxSeason

\* a run that fitted the goals target on the two games of the first season and held out
\* one game of the next, with a game of a null target left out of both
C10_Witness ==
    /\ last_run = Ran("models", "ok")
    /\ NRows(team_model_table) = 4
    /\ splits["y_goalsFor"].fitted
    /\ NRows(splits["y_goalsFor"].train_df) = 2
    /\ NRows(splits["y_goalsFor"].test_df) = 1
    /\ models["y_goalsFor"] # NoModel

\* the rows of the report written for target y
ReportRowsOf(y) == {r \in 1..NRows(report) : Cell(report, r, "target") = y}

\* the targets the last run fitted
Trained == {y \in TeamTargetNames : splits[y].fitted}

\* C11: after a run that wrote its report, the artifact of every trained target names a
\* candidate whose holdout MAE in the report is at most the MAE of every candidate of
\* that target, and the report holds exactly one row per trained target and candidate
\* and no other row
C11_ModelSelection ==
    last_run = Ran("models", "ok") =>
        /\ \A y \in Trained :
               /\ \A c \in 1..Len(Candidates) :
                      Cardinality({r \in ReportRowsOf(y) : Cell(report, r, "model") = Candidates[c]}) = 1
               /\ \A r \in ReportRowsOf(y) :
                      Cell(report, r, "model") = models[y].model =>
                          \A q \in ReportRowsOf(y) :
                              ~RLess(Cell(report, q, "MAE"), Cell(report, r, "MAE"))
               /\ \E r \in ReportRowsOf(y) : Cell(report, r, "model") = models[y].model
        /\ NRows(report) = Len(Candidates) * Cardinality(Trained)
        /\ \A r \in 1..NRows(report) : Cell(report, r, "target") \in Trained

\* a run that trained two targets and kept, for one of them, a candidate other than the
\* first because the first had the higher error
C11_Witness ==
    /\ last_run = Ran("models", "ok")
    /\ Cardinality(Trained) = 2
    /\ NRows(report) = 6
    /\ models["y_goalsFor"].model = "hgb"
    /\ \E r \in ReportRowsOf("y_goalsFor") :
           Cell(report, r, "model") = "ridge" /\ Cell(report, r, "MAE") = Num(2)

\* the targets of the model table whose training rows or holdout rows are none
EmptySplit ==
    {y \in TeamTargetNames :
        /\ HasCol(team_model_table, y)
        /\ \/ RowsWith(y, LAMBDA s : RLess(s, MaxSeason)) = << >>
           \/ RowsWith(y, LAMBDA s : s = MaxSeason) = << >>}

\* C12: a run of the trainer in which some targets have an empty training or holdout
\* set, and no fit failed, skips those targets and ends normally with its report
\* written, also when every target of the table is skipped
C12_EmptySplitPolicy ==
    (TrainerRan /\ EmptySplit # {} /\ last_run.result # "fit_fatal") =>
        /\ last_run.result = "ok"
        /\ \A y \in EmptySplit : ~splits[y].fitted /\ ReportRowsOf(y) = {}

\* the targets none of whose alias names is a column of the raw team table
Absent ==
    {team_targets[k][1] : k \in {i \in 1..Len(team_targets) :
                                    pick_col(team_game, team_targets[i][2]) = NoCol}}

\* C13: the team model table is written with a y_ column for exactly the targets that
\* have an alias in the raw team table; a run of the trainer on it in which no target
\* present has an empty split and no fit failed ends normally, having considered none
\* of the absent targets
C13_MissingTargets ==
    /\ ModelTablesBuilt =>
           \A y \in TeamTargetNames : HasCol(team_model_table, y) <=> y \notin Absent
    /\ (TrainerRan /\ Absent # {} /\ EmptySplit = {} /\ last_run.result # "fit_fatal") =>
           /\ last_run.result = "ok"
           /\ \A y \in Absent : splits[y] = NoSplit /\ ReportRowsOf(y) = {}

---------------------------------------------------------------------------
(* Calls of per60 on bounded tables *)

Per60Cols == <<"goals", "icetime_min">>
CountVals == {NULL, Num(0), Num(3)}
\* minutes of ice-time: none recorded, none played, whole and fractional
ToiVals == {NULL, Num(0), Num(45), Frac(31, 2)}

Per60Init ==
    /\ pc = "input"
    /\ df = Frame(Per60Cols, << >>)
    /\ entity_cols = << >>
    /\ windows = << >>
    /\ out = NoFrame
    /\ NoFiles

AppendCountRow ==
    /\ pc = "input"
    /\ NRows(df) < MaxRows
    /\ \E x \in CountVals, toi \in ToiVals :
           df' = Frame(df.cols, Append(df.data, <<x, toi>>))
    /\ UNCHANGED <<pc, entity_cols, windows, out, filevars, raw_dir, download>>

\* sk_feat[f"{c}_per60"] = per60(sk_feat, c, toi_col)
CallPer60 ==
    /\ pc = "input"
    /\ out' = SetCol(df, "goals_per60", per60(df, "goals", "icetime_min"))
    /\ pc' = "rated"
    /\ UNCHANGED <<df, entity_cols, windows, filevars, raw_dir, download>>

Per60Next == AppendCountRow \/ CallPer60

SpecPer60 == Per60Init /\ [][Per60Next]_vars

\* C8: per60 gives null for every row of zero ice-time, and for every row of non-zero
\* ice-time the rate v with v * ice-time = 60 * count (null when the count is null);
\* it never gives infinity
C8_Per60Guard ==
    pc = "rated" =>
        \A r \in 1..NRows(df) :
            LET x   == Cell(df, r, "goals")
                toi == Cell(df, r, "icetime_min")
                v   == Cell(out, r, "goals_per60")
            IN  /\ v # INF
                /\ toi = Num(0) => v = NULL
                /\ (~IsNull(toi) /\ toi # Num(0)) =>
                       IF IsNull(x) THEN v = NULL
                       ELSE ~IsNull(v) /\ RMul(v, toi) = RMul(Num(60), x)

\* three goals in no ice-time give null, three goals in 45 minutes give 4 per 60
C8_Witness ==
    /\ pc = "rated"
    /\ \E r1, r2 \in 1..NRows(df) :
           /\ df.data[r1] = <<Num(3), Num(0)>>
           /\ Cell(out, r1, "goals_per60") = NULL
           /\ df.data[r2] = <<Num(3), Num(45)>>
           /\ Cell(out, r2, "goals_per60") = Num(4)

---------------------------------------------------------------------------
(* Calls of pick_col and standardize_team_game_cols on one-row tables *)

MaxCols == 3

\* column names a provider's file may carry
RawNames == {"team", "playerTeam", "teamAbbrev", "opponent", "gameId", "game_id", "id",
             "gameDate", "date", "homeAway", "situation"}

\* what the cell of a column named c, added as column number k, may hold: a text that
\* tells the column, the number of the column, or a date in eight digits (a day, a day
\* that does not exist, nothing)
RawValues(c, k) ==
    IF c \in TextCols THEN {"v_" \o c}
    ELSE IF c \in {"gameDate", "date"} THEN {<<2021, 10, 4 + k>>, <<2021, 2, 30>>, NULL}
    ELSE {Num(k)}

\* the candidate lists handed to pick_col
PickLists == {PidAliases, TeamAliases, GameIdAliases}

ResolveInit ==
    /\ pc = "input"
    /\ df = Frame(<< >>, << << >> >>)
    /\ entity_cols = << >>
    /\ windows = << >>
    /\ out = NoFrame
    /\ NoFiles

AddRawColumn ==
    /\ pc = "input"
    /\ Len(df.cols) < MaxCols
    /\ \E c \in RawNames :
           /\ ~HasCol(df, c)
           /\ \E v \in RawValues(c, Len(df.cols) + 1) :
                  df' = Frame(Append(df.cols, c), <<Append(df.data[1], v)>>)
    /\ UNCHANGED <<pc, entity_cols, windows, out, filevars, raw_dir, download>>

\* df = standardize_team_game_cols(df)
CallStandardize ==
    /\ pc = "input"
    /\ out' = standardize_team_game_cols(df)
    /\ pc' = "standardized"
    /\ UNCHANGED <<df, entity_cols, windows, filevars, raw_dir, download>>

\* c = pick_col(df, candidates) and, when c is a name, df[[c]]
CallPickCol ==
    /\ pc = "input"
    /\ \E candidates \in PickLists :
           /\ entity_cols' = candidates
           /\ out' = IF pick_col(df, candidates) = NoCol THEN NoFrame
                     ELSE Select(df, <<pick_col(df, candidates)>>)
    /\ pc' = "picked"
    /\ UNCHANGED <<df, windows, filevars, raw_dir, download>>

ResolveNext == AddRawColumn \/ CallStandardize \/ CallPickCol

SpecResolve == ResolveInit /\ [][ResolveNext]_vars

\* the positions of the candidates that are columns of df
PresentAt(candidates) == {k \in 1..Len(candidates) : HasCol(df, candidates[k])}

\* the first candidate in list order that is a column of df
FirstPresent(candidates) ==
    candidates[CHOOSE k \in PresentAt(candidates) : \A j \in PresentAt(candidates) : k <= j]

\* the canonical columns that are copied, each with its aliases in order
CopiedCanon ==
    << <<"team", TeamAliases>>, <<"team_opp", OppAliases>>, <<"gameId", GameIdAliases>>,
       <<"home_or_away", HomeAwayAliases>> >>

\* column canon of out is column c of df
CopiedFrom(canon, c) == HasCol(out, canon) /\ Column(out, canon) = Column(df, c)

\* column gameDate of out is column c of df, parsed
ParsedFrom(c) ==
    /\ HasCol(out, "gameDate")
    /\ \A r \in 1..NRows(df) : Cell(out, r, "gameDate") = parse_game_date(Cell(df, r, c))

\* C16: pick_col returns the first candidate in list order that is a column and None
\* when none is; standardize_team_game_cols leaves a canonical column that is present
\* as it is (gameDate parsed), fills an absent one from the first of its aliases that
\* is present, and leaves it absent when no alias is present; the other columns are
\* kept as they are
C16_AliasResolution ==
    /\ pc = "picked" =>
           IF PresentAt(entity_cols) = {} THEN out = NoFrame
           ELSE out # NoFrame /\ out.cols = <<FirstPresent(entity_cols)>>
    /\ pc = "standardized" =>
           /\ \A i \in 1..Len(CopiedCanon) :
                  LET canon   == CopiedCanon[i][1]
                      aliases == CopiedCanon[i][2]
                  IN  IF HasCol(df, canon) THEN CopiedFrom(canon, canon)
                      ELSE IF PresentAt(aliases) = {} THEN ~HasCol(out, canon)
                      ELSE CopiedFrom(canon, FirstPresent(aliases))
           /\ IF HasCol(df, "gameDate") THEN ParsedFrom("gameDate")
              ELSE IF PresentAt(DateAliases) = {} THEN ~HasCol(out, "gameDate")
              ELSE ParsedFrom(FirstPresent(DateAliases))
           /\ \A k \in 1..Len(df.cols) :
                  df.cols[k] # "gameDate" => CopiedFrom(df.cols[k], df.cols[k])

\* a table with two aliases of team, the later in list order standing first, and a team
\* column filled from the earlier in list order
C16_Witness ==
    /\ pc = "standardized"
    /\ df.cols = <<"teamAbbrev", "playerTeam", "date">>
    /\ Column(out, "team") = <<"v_playerTeam">>
    /\ ~HasCol(out, "team_opp")
    /\ Column(out, "gameDate") = <<Num(279)>>

---------------------------------------------------------------------------
(* Calls of strip_and_dedup_columns on one-row tables whose column names repeat *)

\* names that are equal, or equal once the blanks around them are gone
DupNames == {"gameId", " gameId", "gameId ", "goals", "goals "}

DedupInit ==
    /\ pc = "input"
    /\ df = Frame(<< >>, << << >> >>)
    /\ entity_cols = << >>
    /\ windows = << >>
    /\ out = NoFrame
    /\ NoFiles

\* one more column, holding its number
AddNamedColumn ==
    /\ pc = "input"
    /\ Len(df.cols) < MaxCols
    /\ \E c \in DupNames :
           df' = Frame(Append(df.cols, c), <<Append(df.data[1], Num(Len(df.cols) + 1))>>)
    /\ UNCHANGED <<pc, entity_cols, windows, out, filevars, raw_dir, download>>

\* out = strip_and_dedup_columns(df): the work is done on a copy, and the function
\* raises when its result still has a repeated name
CallDedup ==
    /\ pc = "input"
    /\ IF still_duplicated(strip_and_dedup_columns(df))
       THEN pc' = "dedup_fatal" /\ out' = NoFrame
       ELSE pc' = "deduped" /\ out' = strip_and_dedup_columns(df)
    /\ UNCHANGED <<df, entity_cols, windows, filevars, raw_dir, download>>

DedupNext == AddNamedColumn \/ CallDedup

SpecDedup == DedupInit /\ [][DedupNext]_vars

\* the first column of df whose stripped name is name
FirstNamed(name) ==
    CHOOSE i \in 1..Len(df.cols) :
        /\ Strip(df.cols[i]) = name
        /\ \A j \in 1..(i - 1) : Strip(df.cols[j]) # name

Deduplicated ==
    /\ pc # "dedup_fatal"
    /\ pc = "deduped" =>
           /\ \A i, j \in 1..Len(out.cols) : i # j => out.cols[i] # out.cols[j]
           /\ {out.cols[k] : k \in 1..Len(out.cols)} = {Strip(df.cols[i]) : i \in 1..Len(df.cols)}
           /\ \A k \in 1..Len(out.cols) :
                  /\ out.data[1][k] = df.data[1][FirstNamed(out.cols[k])]
                  /\ \A m \in 1..(k - 1) : FirstNamed(out.cols[m]) < FirstNamed(out.cols[k])
           /\ NRows(out) = NRows(df)

\* C18: strip_and_dedup_columns never ends in its duplicate error; the names of the
\* table it returns are the stripped names of the table given, each once, every column
\* being the first column of the given table under that name, in the given order; the
\* table given is the same after the call
C18_ColumnDedup == []Deduplicated /\ [][pc' # "input" => df' = df]_vars

\* a table whose first and third column are equally named once stripped
C18_Witness ==
    /\ pc = "deduped"
    /\ df.cols = <<"gameId ", "goals", " gameId">>
    /\ out = Frame(<<"gameId", "goals">>, << <<Num(1), Num(2)>> >>)

---------------------------------------------------------------------------
(* The column normalization and rolling_features, run twice on one raw table *)

\* column names as read: clean, padded with a repeated statistic, padded with a
\* repeated team
TwiceSchemas == {<<"team", "gameDate", "x">>,
                 <<" team", "gameDate ", "x", "x ">>,
                 <<"team ", "gameDate", " x", "team">>}

TwiceVals == {NULL, Num(2)}

\* the cell of the fourth column, when there is one
FourthCell(cols) == IF Len(cols) < 4 THEN << >> ELSE IF cols[4] = "team" THEN <<"TOR">> ELSE <<Num(9)>>

TwiceInit ==
    /\ pc = "input"
    /\ \E cols \in TwiceSchemas : team_game = Frame(cols, << >>)
    /\ skater_game = NoFrame /\ goalie_game = NoFrame
    /\ NoCall
    /\ NoOutputs

AppendRawRow ==
    /\ pc = "input"
    /\ NRows(team_game) < MaxRows
    /\ \E t \in RollTeams, d \in RollDates, v \in TwiceVals :
           team_game' = Frame(team_game.cols,
                              Append(team_game.data, <<t, d, v>> \o FourthCell(team_game.cols)))
    /\ UNCHANGED <<pc, callvars, skater_game, goalie_game, featvars, modelvars, trainvars,
                   projvars, last_run, raw_dir, download>>

\* df = strip_and_dedup_columns(raw); out = rolling_features(df, ["team"], "gameDate",
\* ["x"], (1, 2), "r"); df is the caller's table after the call
NormalizeAndRoll ==
    /\ pc \in {"input", "once"}
    /\ pc' = IF pc = "input" THEN "once" ELSE "twice"
    /\ entity_cols' = TeamGroup
    /\ windows' = ShortWindows
    /\ df' = caller_table(strip_and_dedup_columns(team_game), TeamGroup, "gameDate")
    /\ out' = rolling_features(strip_and_dedup_columns(team_game), TeamGroup, "gameDate",
                               <<"x">>, ShortWindows, "r")
    /\ UNCHANGED <<filevars, raw_dir, download>>

TwiceNext == AppendRawRow \/ NormalizeAndRoll

SpecTwice == TwiceInit /\ [][TwiceNext]_vars

(* Properties of SpecTwice *)

---------------------------------------------------------------------------
(* Calls of parse_game_date on the cells of a gameDate column *)

\* eight-digit values split into year, month and day: dates, and values whose month or
\* day is none
SplitCells ==
    {<<y, m, d>> : y \in {1999, 2020, 2021, 2024}, m \in {0, 2, 12, 13}, d \in {0, 28, 29, 31, 32}}

\* eight-digit texts
DigitTexts == {"20211012", " 20211012 ", "20210229", "20240229", "20211301", "20210631",
               "19991231", "20210100"}

\* other texts with what pandas reads them as, written as str() writes it ("NaT": no date)
OtherTexts ==
    {<<"2021-10-12", "2021-10-12 00:00:00">>,
     <<" 2021-10-12", "2021-10-12 00:00:00">>,
     <<"2024-02-29", "2024-02-29 00:00:00">>,
     <<"2021-10-12 19:30:00", "2021-10-12 19:30:00">>,
     <<"2021-10-12T00:00:01", "2021-10-12 00:00:01">>,
     <<"1999-12-31 23:59:59", "1999-12-31 23:59:59">>,
     <<"2021-02-30", "NaT">>,
     <<"2021-13-01", "NaT">>,
     <<"2021-10-12 19:61:00", "NaT">>,
     <<"garbage", "NaT">>,
     <<"unknown", "NaT">>,
     <<"not a date", "NaT">>,
     <<"", "NaT">>}

\* the cells that are no text, and those that are
ValueCells == {NULL} \cup SplitCells
TextCells == DigitTexts \cup {p[1] : p \in OtherTexts}

ParseInit ==
    /\ pc = "input"
    /\ \/ \E s \in ValueCells : df = Frame(<<"gameDate">>, << <<s>> >>)
       \/ \E s \in TextCells : df = Frame(<<"gameDate">>, << <<s>> >>)
    /\ entity_cols = << >>
    /\ windows = << >>
    /\ out = NoFrame
    /\ NoFiles

\* out["gameDate"] = df["gameDate"].map(parse_game_date)
CallMapDates ==
    /\ pc = "input"
    /\ pc' = "parsed"
    /\ out' = MapDates(df)
    /\ UNCHANGED <<df, entity_cols, windows, filevars, raw_dir, download>>

\* the parsed column is mapped once more
MapDatesAgain ==
    /\ pc = "parsed"
    /\ pc' = "reparsed"
    /\ df' = out
    /\ out' = MapDates(out)
    /\ UNCHANGED <<entity_cols, windows, filevars, raw_dir, download>>

ParseNext == CallMapDates \/ MapDatesAgain

SpecParse == ParseInit /\ [][ParseNext]_vars

(* Properties of SpecParse *)

\* a date as str() writes it, "NaT" for the null marker
Shown(v) == IF IsNull(v) THEN "NaT" ELSE str_timestamp(v)

\* "YYYY-MM-DD 00:00:00" of the year, month and day given, "NaT" when they are no date
ShownYmd(y, m, d) ==
    IF IsDate(y, m, d)
    THEN Padded(y, 4) \o "-" \o Padded(m, 2) \o "-" \o Padded(d, 2) \o " 00:00:00"
    ELSE "NaT"

\* what the claim has a cell read as
ReadAs(s) ==
    IF Len(s) = 2 THEN "NaT"
    ELSE IF Len(s) = 3 THEN ShownYmd(s[1], s[2], s[3])
    ELSE IF s \in DigitTexts
    THEN ShownYmd(ToNat(SubSeq(Strip(s), 1, 4)), ToNat(SubSeq(Strip(s), 5, 6)),
                  ToNat(SubSeq(Strip(s), 7, 8)))
    ELSE (CHOOSE p \in OtherTexts : p[1] = s)[2]

\* C22: parse_game_date does not raise; an eight-digit value is read as YYYYMMDD, another
\* parseable text as its date, a missing or unparseable value (an eight-digit value that
\* is no date included) as the null marker; a parsed value is parsed to itself.
C22_DateParsing ==
    /\ pc = "parsed" => Shown(out.data[1][1]) = ReadAs(df.data[1][1])
    /\ pc = "reparsed" => out = df

\* a leap day and a time of day, parsed and parsed again
C22_Witness ==
    /\ pc = "reparsed"
    /\ Shown(out.data[1][1]) \in {"2024-02-29 00:00:00", "2021-10-12 19:30:00"}

---------------------------------------------------------------------------
(* common.py : download_with_retries *)

MaxTries == 3

\* what is at out_path: no file, an empty file, a file downloaded earlier, the file
\* this call wrote
NonEmpty(file) == file \notin {"missing", "empty"}

\* line 52
skip_download(force, file) == ~force /\ NonEmpty(file)

\* one attempt more than asked for
in_range_inclusive(i, max_tries) == i <= max_tries

\* line 56: i in range(max_tries)
in_range(i, max_tries) == i < max_tries

DownloadInit ==
    /\ pc = "call"
    /\ NoCall
    /\ team_game = NoFrame /\ skater_game = NoFrame /\ goalie_game = NoFrame
    /\ team_features = NoFrame /\ skater_features = NoFrame /\ goalie_features = NoFrame
    /\ team_model_table = NoFrame /\ skater_model_table = NoFrame /\ goalie_model_table = NoFrame
    /\ models = NoModels /\ report = NoFrame /\ splits = NoSplits
    /\ df_sched = NoFrame /\ preds = NoFrame
    /\ last_run = NoRun
    /\ raw_dir = NoRawDir
    /\ \E n \in 0..MaxTries, force \in BOOLEAN, file \in {"missing", "empty", "old"} :
           download = [NoDownload EXCEPT !.max_tries = n, !.force = force,
                                         !.existing = file, !.out_file = file]

\* lines 51-55: the file is there and not to be replaced, or the loop is entered
EnterDownload ==
    /\ pc = "call"
    /\ IF skip_download(download.force, download.out_file)
       THEN pc' = "done" /\ download' = [download EXCEPT !.outcome = "returned_false"]
       ELSE pc' = "loop" /\ UNCHANGED download
    /\ UNCHANGED <<callvars, filevars, raw_dir>>

\* lines 57-58, 63-65: http_get raises
FetchFails ==
    /\ pc = "loop"
    /\ in_range(download.i, download.max_tries)
    /\ download' = [download EXCEPT !.fetches = @ + 1, !.last_err = "HTTPError", !.i = @ + 1]
    /\ UNCHANGED <<pc, callvars, filevars, raw_dir>>

\* lines 57-60, 63-65: the response is there but the file cannot be opened, or it is
\* opened (and so emptied) and cannot be written
WriteFails ==
    /\ pc = "loop"
    /\ in_range(download.i, download.max_tries)
    /\ \E left \in {download.out_file, "empty"} :
           download' = [download EXCEPT !.fetches = @ + 1, !.last_err = "OSError",
                                        !.i = @ + 1, !.out_file = left]
    /\ UNCHANGED <<pc, callvars, filevars, raw_dir>>

\* lines 57-62: the response is written and True returned
FetchSucceeds ==
    /\ pc = "loop"
    /\ in_range(download.i, download.max_tries)
    /\ pc' = "done"
    /\ download' = [download EXCEPT !.fetches = @ + 1, !.out_file = "fetched",
                                    !.outcome = "returned_true"]
    /\ UNCHANGED <<callvars, filevars, raw_dir>>

\* line 67: raise last_err; with no attempt made last_err is None, which cannot be
\* raised, and a TypeError is
RaiseLast ==
    /\ pc = "loop"
    /\ ~in_range(download.i, download.max_tries)
    /\ pc' = "done"
    /\ download' = [download EXCEPT
           !.outcome = IF download.last_err = "None" THEN "raised_TypeError" ELSE "raised_last_err"]
    /\ UNCHANGED <<callvars, filevars, raw_dir>>

DownloadNext == EnterDownload \/ FetchFails \/ WriteFails \/ FetchSucceeds \/ RaiseLast

SpecDownload == DownloadInit /\ [][DownloadNext]_vars

(* Properties of SpecDownload *)

Raised == download.outcome \in {"raised_TypeError", "raised_last_err"}

\* C26: download_with_retries makes at most max_tries fetch attempts, stops at the first
\* that succeeds (the file is written, True returned), and after max_tries failed
\* attempts raises instead of returning; when the file is there non-empty and force is
\* false it makes no attempt, leaves the file as it is and returns False.
C26_BoundedRetry ==
    /\ download.fetches <= download.max_tries
    /\ download.outcome = "returned_true" =>
           /\ download.out_file = "fetched"
           /\ download.fetches = download.i + 1
    /\ (pc = "done" /\ download.outcome # "returned_false"
                     /\ download.i = download.max_tries) =>
           Raised /\ download.fetches = download.max_tries
    /\ Raised => download.i = download.max_tries
    /\ (pc = "done" /\ ~download.force /\ NonEmpty(download.existing)) =>
           /\ download.outcome = "returned_false"
           /\ download.fetches = 0
           /\ download.out_file = download.existing
    /\ download.outcome = "returned_false" => ~download.force /\ NonEmpty(download.existing)

\* the last of three attempts succeeded after two failures, over a file that was there
C26_Witness ==
    /\ download.outcome = "returned_true"
    /\ download.force /\ download.existing = "old"
    /\ download.max_tries = 3 /\ download.fetches = 3

---------------------------------------------------------------------------
(* 01 and 04 on bounded sets of downloaded files *)

MaxFiles == 2

RawFile(name, season, cols, rows) == [name |-> name, season |-> season, table |-> Frame(cols, rows)]

TeamFileCols == <<"team", "season", "gameId", "gameDate", "situation", "goalsFor">>

\* the team files a download may leave: a file with the rows of two situations of one
\* game, a file under the provider's other column names with a game of an earlier
\* season, a file without team, season and situation, a file that repeats a game row,
\* and a file without dates
TeamFiles ==
    {RawFile("BOS", NULL, TeamFileCols,
             << <<"BOS", FirstSeason, Num(1), <<2021, 10, 12>>, "all", Num(3)>>,
                <<"BOS", FirstSeason, Num(1), <<2021, 10, 12>>, "5on5", Num(2)>>,
                <<"BOS", NextSeason, Num(2), <<2022, 10, 12>>, "All", Num(4)>> >>),
     RawFile("LA", NULL, <<"playerTeam", "season", "game_id", "date", "situation", "goalsFor">>,
             << <<"LA", FirstSeason, Num(1), <<2021, 10, 12>>, "all", Num(1)>>,
                <<"LA", Num(2020), Num(3), <<2021, 1, 9>>, "all", Num(5)>> >>),
     RawFile("NJ", NULL, <<"gameId", "gameDate", "goalsFor">>,
             << <<Num(4), <<2021, 11, 1>>, Num(2)>> >>),
     RawFile("TB", NULL, TeamFileCols,
             << <<"TB", FirstSeason, Num(5), <<2021, 10, 14>>, "all", Num(1)>>,
                <<"TB", FirstSeason, Num(5), <<2021, 10, 14>>, "all", Num(1)>>,
                <<"TB", FirstSeason, Num(5), <<2021, 10, 14>>, "other", Num(7)>> >>),
     RawFile("SJ", NULL, <<"team", "season", "gameId", "situation">>,
             << <<"SJ", FirstSeason, Num(6), "all">> >>)}

\* the skater files: ice-time in seconds and no season column, a file of the next
\* season's folder with a row of an earlier season, and a file that repeats a row
SkaterFiles ==
    {RawFile("BOS", FirstSeason,
             <<"team", "gameId", "gameDate", "situation", "playerId", "icetime", "goals">>,
             << <<"BOS", Num(1), <<2021, 10, 12>>, "all", Num(8), Num(900), Num(1)>>,
                <<"BOS", Num(1), <<2021, 10, 12>>, "5on4", Num(8), Num(120), Num(1)>>,
                <<"BOS", Num(2), <<2021, 10, 14>>, "all", Num(8), Num(1200), Num(0)>> >>),
     RawFile("BOS", NextSeason,
             <<"team", "season", "gameId", "gameDate", "situation", "playerId", "icetime_min", "goals">>,
             << <<"BOS", NextSeason, Num(3), <<2022, 10, 12>>, "all", Num(9), Num(15), Num(2)>>,
                <<"BOS", Num(2019), Num(7), <<2021, 1, 2>>, "all", Num(9), Num(15), Num(2)>> >>),
     RawFile("TB", FirstSeason,
             <<"team", "gameId", "gameDate", "situation", "playerId", "icetime_min", "goals">>,
             << <<"TB", Num(5), <<2021, 10, 14>>, "all", Num(7), Num(12), Num(1)>>,
                <<"TB", Num(5), <<2021, 10, 14>>, "all", Num(7), Num(12), Num(1)>> >>)}

GoalieFiles ==
    <<RawFile("BOS", FirstSeason,
              <<"team", "gameId", "gameDate", "situation", "playerId", "icetime_min",
                "goalsAgainst", "shotsAgainst">>,
              << <<"BOS", Num(1), <<2021, 10, 12>>, "all", Num(30), Num(60), Num(2), Num(20)>>,
                 <<"BOS", Num(1), <<2021, 10, 12>>, "5on5", Num(30), Num(50), Num(1), Num(15)>> >>)>>

LoadInit ==
    /\ NoCall
    /\ pc = "raw"
    /\ raw_dir = [teams |-> << >>, skaters |-> << >>, goalies |-> GoalieFiles]
    /\ download = NoDownload
    /\ team_game = NoFrame /\ skater_game = NoFrame /\ goalie_game = NoFrame
    /\ team_features = NoFrame /\ skater_features = NoFrame /\ goalie_features = NoFrame
    /\ team_model_table = NoFrame /\ skater_model_table = NoFrame /\ goalie_model_table = NoFrame
    /\ models = NoModels /\ report = NoFrame /\ splits = NoSplits
    /\ df_sched = NoFrame /\ preds = NoFrame
    /\ last_run = NoRun

\* one more file in a folder, under a name the folder does not have yet
Listed(files, file) == \E i \in 1..Len(files) : files[i] = file

DownloadTeamFile ==
    /\ pc = "raw"
    /\ Len(raw_dir.teams) < MaxFiles
    /\ \E file \in TeamFiles :
           /\ ~Listed(raw_dir.teams, file)
           /\ raw_dir' = [raw_dir EXCEPT !.teams = Append(@, file)]
    /\ UNCHANGED <<pc, callvars, filevars, download>>

DownloadSkaterFile ==
    /\ pc = "raw"
    /\ Len(raw_dir.skaters) < MaxFiles
    /\ \E file \in SkaterFiles :
           /\ ~Listed(raw_dir.skaters, file)
           /\ raw_dir' = [raw_dir EXCEPT !.skaters = Append(@, file)]
    /\ UNCHANGED <<pc, callvars, filevars, download>>

\* 01 main from line 129 for the seasons FirstSeason to NextSeason: the three tables
\* are loaded, then written, then the number of games is printed
LoadAndSave ==
    /\ pc \in {"raw", "processed"}
    /\ pc' = "processed"
    /\ IF TeamLoadFatal(raw_dir.teams)
       THEN last_run' = Ran("processed", "team_fatal") /\ UNCHANGED rawvars
       ELSE IF PlayerLoadFatal(raw_dir.skaters, FirstSeason, NextSeason)
       THEN last_run' = Ran("processed", "skater_fatal") /\ UNCHANGED rawvars
       ELSE IF PlayerLoadFatal(raw_dir.goalies, FirstSeason, NextSeason)
       THEN last_run' = Ran("processed", "goalie_fatal") /\ UNCHANGED rawvars
       ELSE /\ team_game' = load_all_team_gbg_raw(raw_dir.teams, FirstSeason, NextSeason)
            /\ skater_game' = WithMinutes(load_team_player_gbg(raw_dir.skaters, FirstSeason, NextSeason))
            /\ goalie_game' = WithMinutes(load_team_player_gbg(raw_dir.goalies, FirstSeason, NextSeason))
            /\ last_run' = Ran("processed",
                               IF HasCol(Concat(TeamFilesRead(raw_dir.teams)), "gameId")
                               THEN "ok" ELSE "print_fatal")
    /\ UNCHANGED <<callvars, featvars, modelvars, trainvars, projvars, raw_dir, download>>

LoadNext ==
    \/ DownloadTeamFile
    \/ DownloadSkaterFile
    \/ LoadAndSave
    \/ BuildFeatures

SpecLoad == LoadInit /\ [][LoadNext]_vars

(* Properties of SpecLoad *)

KeysUnique(f, by) ==
    \A r, q \in 1..NRows(f) : KeyOf(f, by, r) = KeyOf(f, by, q) => r = q

\* C19: in the processed game tables and in the feature tables built from them no two
\* rows share (gameId, team) in the team table or (gameId, team, playerId) in the skater
\* and goalie tables, whatever raw files were downloaded, files that repeat a game row
\* included.
C19_EntityKeys ==
    /\ last_run \in {Ran("processed", "ok"), Ran("features", "ok")} =>
           /\ KeysUnique(team_game, TeamKey)
           /\ KeysUnique(skater_game, PlayerKey)
           /\ KeysUnique(goalie_game, PlayerKey)
    /\ last_run = Ran("features", "ok") =>
           /\ KeysUnique(team_features, TeamKey)
           /\ KeysUnique(skater_features, PlayerKey)
           /\ KeysUnique(goalie_features, PlayerKey)

\* a downloaded file repeats a row
RepeatsRow(file) ==
    \E r, q \in 1..NRows(file.table) : r # q /\ file.table.data[r] = file.table.data[q]

NoRepeats == \A kind \in DOMAIN raw_dir :
                 \A i \in 1..Len(raw_dir[kind]) : ~RepeatsRow(raw_dir[kind][i])

\* the keys are unique when no downloaded file repeats a row
C19_KeysOfDistinctRows == NoRepeats => C19_EntityKeys

\* the rows of a raw file other than those of situation "all"; a file without the
\* column has none
OtherSituation(file, r) ==
    /\ HasCol(file.table, "situation")
    /\ Lower(Cell(file.table, r, "situation")) # "all"

WithoutOthers(file) ==
    [file EXCEPT !.table.data =
         Flatten(MkSeq(Len(@), LAMBDA r : IF OtherSituation(file, r) THEN << >> ELSE <<@[r]>>))]

AllOnly(files) == MkSeq(Len(files), LAMBDA i : WithoutOthers(files[i]))

EverySituationAll(f) ==
    \A r \in 1..NRows(f) : HasCol(f, "situation") /\ Lower(Cell(f, r, "situation")) = "all"

\* C20: every row of the processed team, skater and goalie tables has situation "all"
\* in whatever case, and the feature tables are those of the raw files with the rows of
\* every other situation taken out: such rows contribute to no rolling value.
C20_SituationFilter ==
    /\ EverySituationAll(team_game) /\ EverySituationAll(skater_game) /\ EverySituationAll(goalie_game)
    /\ last_run = Ran("features", "ok") =>
           /\ team_features =
                  TeamFeatures(load_all_team_gbg_raw(AllOnly(raw_dir.teams), FirstSeason, NextSeason))
           /\ skater_features =
                  SkaterFeatures(WithMinutes(load_team_player_gbg(AllOnly(raw_dir.skaters), FirstSeason, NextSeason)))
           /\ goalie_features =
                  GoalieFeatures(WithMinutes(load_team_player_gbg(AllOnly(raw_dir.goalies), FirstSeason, NextSeason)))

\* features built from files holding rows of other situations and a row of situation
\* "All", which is kept and gives the next game its rolling value
C20_Witness ==
    /\ last_run = Ran("features", "ok")
    /\ \E i \in 1..Len(raw_dir.teams) : AllOnly(raw_dir.teams)[i] # raw_dir.teams[i]
    /\ \E i \in 1..Len(raw_dir.skaters) : AllOnly(raw_dir.skaters)[i] # raw_dir.skaters[i]
    /\ \E r \in 1..NRows(team_game) : Cell(team_game, r, "situation") = "All"
    /\ \E r \in 1..NRows(team_features) : ~IsNull(Cell(team_features, r, "team_5_goalsFor"))
    /\ \E r \in 1..NRows(skater_features) : ~IsNull(Cell(skater_features, r, "sk_5_goals_per60"))

\* the team table of the feature build at the point where the rest days have been added
WithRest == SortedWithDays(Prepared(team_game))

\* the rows of the same team's other games that are dated no later than row r
GamesBefore(f, r) ==
    {q \in 1..NRows(f) :
        /\ Cell(f, q, "team") = Cell(f, r, "team")
        /\ Cell(f, q, "gameId") # Cell(f, r, "gameId")
        /\ ~IsNull(Cell(f, q, "gameDate"))
        /\ ~RLess(Cell(f, r, "gameDate"), Cell(f, q, "gameDate"))}

\* calendar days from the team's immediately preceding game to the game of row r
DaysFromPrecedingGame(f, r) ==
    IF IsNull(Cell(f, r, "gameDate")) \/ GamesBefore(f, r) = {} THEN NULL
    ELSE LET last == CHOOSE q \in GamesBefore(f, r) :
                         \A q2 \in GamesBefore(f, r) :
                             ~RLess(Cell(f, q, "gameDate"), Cell(f, q2, "gameDate"))
         IN  RSub(Cell(f, r, "gameDate"), Cell(f, last, "gameDate"))

\* C21: in every feature build, days_since_prev_game of every team row is the number of
\* calendar days from the same team's immediately preceding game to the row's game, and
\* null on the rows of the team's first game.
C21_RestDays ==
    pc = "features" =>
        \A r \in 1..NRows(WithRest) :
            Cell(WithRest, r, "days_since_prev_game") = DaysFromPrecedingGame(WithRest, r)

\* the rest days are those of the preceding game when no downloaded file repeats a row
C21_RestDaysOfDistinctRows == NoRepeats => C21_RestDays

\* a team with two games a year apart, built from files that repeat no row
C21_DistinctRowsReached ==
    /\ pc = "features" /\ NoRepeats
    /\ \E r \in 1..NRows(WithRest) : Cell(WithRest, r, "days_since_prev_game") = Num(365)

---------------------------------------------------------------------------
(* The whole pipeline: 04, 05, 06 and 07 on a team table with all six statistics *)

SixStats ==
    <<"goalsFor", "goalsAgainst", "shotsOnGoalFor", "shotsOnGoalAgainst",
      "xGoalsFor", "xGoalsAgainst">>

\* the identifying columns of a team table, with or without the opponent
IdCols(opp) == SelectSeq(RawBase, LAMBDA c : opp \/ c # "team_opp")

\* row i of the table: game g of team t against u, its k-th statistic being i + k
SixStatRow(opp, i, g, season, t, u) ==
    <<Num(g), Num(g), season, t>> \o (IF opp THEN <<u>> ELSE << >>)
        \o <<IF t = "BOS" THEN "HOME" ELSE "AWAY", "all">>
        \o MkSeq(Len(SixStats), LAMBDA k : Num(i + k))

\* two seasons of games under the codes the provider uses, every alias among them;
\* one team's rows carry its code followed by a blank, and the date of the last game
\* could not be parsed
SixStatGames(opp) ==
    Frame(IdCols(opp) \o SixStats,
          <<SixStatRow(opp, 1, 1, FirstSeason, "BOS", "NJ"),
            SixStatRow(opp, 2, 2, FirstSeason, "BOS", "LA"),
            SixStatRow(opp, 3, 2, FirstSeason, "LA ", "BOS"),
            SixStatRow(opp, 4, 3, NextSeason, "BOS", "SJ"),
            SixStatRow(opp, 5, 4, NextSeason, "TB", "WAS"),
            [SixStatRow(opp, 6, 5, NextSeason, "BOS", "TB") EXCEPT ![2] = NULL]>>)

\* the same games without the opponent, the row of the last dated game of BOS being
\* there twice, as a raw file that repeats a row leaves it
SixStatGamesRepeated ==
    Frame(SixStatGames(FALSE).cols,
          Append(SixStatGames(FALSE).data, SixStatGames(FALSE).data[4]))

ProjectInit ==
    /\ NoCall
    /\ NoOutputs
    /\ pc = "processed"
    /\ team_game \in {SixStatGames(opp) : opp \in BOOLEAN}
    /\ skater_game = OneSkaterGame
    /\ goalie_game = OneGoalieGame

\* the games of the coming days, as <<homeTeam, awayTeam>>
SchedGames == << <<" LA", "BOS">>, <<"NJ", "SJ">>, <<"TB ", "WAS">>, <<"BOS", "LA">> >>

\* what get_schedule may return after it dropped the rows without id or team and the
\* repeated ids: some of the games, each once, all on day 10; the order in which the
\* games are listed is not the order of their canonical codes
Schedules ==
    {Frame(SchedCols,
           LET p == SelectSeq(MkSeq(Len(SchedGames), LAMBDA i : i), LAMBDA i : i \in picked)
           IN  MkSeq(Len(p), LAMBDA i :
                   <<Num(100 + p[i]), Num(10), SchedGames[p[i]][1], SchedGames[p[i]][2], Num(10)>>)) :
     picked \in SUBSET (1..Len(SchedGames))}

\* the holdout errors of the training runs that precede a projection
ProjScenarios == {<<Num(1), Num(2), Num(2)>>, <<Num(2), Num(1), Num(1)>>}

\* 07 main: the features and the six artifacts are read before the schedule is fetched
ProjectUpcoming ==
    /\ IF team_features = NoFrame
       THEN /\ last_run' = Ran("preds", "read_fatal")
            /\ UNCHANGED projvars
       ELSE IF \E k \in 1..Len(ProjTargets) : models[ProjTargets[k]] = NoModel
       THEN /\ last_run' = Ran("preds", "load_fatal")
            /\ UNCHANGED projvars
       ELSE \E sched \in Schedules :
                /\ df_sched' = sched
                /\ IF NRows(sched) = 0
                   THEN /\ last_run' = Ran("preds", "no_games")
                        /\ UNCHANGED preds
                   ELSE IF PredictFatal(models, FeatCols(team_features))
                   THEN /\ last_run' = Ran("preds", "predict_fatal")
                        /\ UNCHANGED preds
                   ELSE /\ preds' = Projections(team_features, models, sched)
                        /\ last_run' = Ran("preds", "ok")
    /\ UNCHANGED <<pc, callvars, rawvars, featvars, modelvars, trainvars, raw_dir, download>>

ProjectNext ==
    \/ BuildFeatures
    \/ BuildModelTables
    \/ \E scen \in ProjScenarios : TrainWith(scen)
    \/ ProjectUpcoming

SpecProject == ProjectInit /\ [][ProjectNext]_vars

\* the dated feature rows of team t
DatedRowsOf(t) ==
    {r \in 1..NRows(team_features) :
        Cell(team_features, r, "team") = t /\ ~IsNull(Cell(team_features, r, "gameDate"))}

\* the dated feature rows of team t that no other row of the team is later than
LatestRowsOf(t) ==
    {r \in DatedRowsOf(t) :
        \A q \in DatedRowsOf(t) :
            ~RLess(Cell(team_features, r, "gameDate"), Cell(team_features, q, "gameDate"))}

\* the team_ feature values of the latest row of team t; nulls for a team without rows
SnapshotOf(t) ==
    LET feat_cols == WithPrefix(team_features, "team_")
    IN  MkSeq(Len(feat_cols), LAMBDA k :
            IF LatestRowsOf(t) = {} THEN NULL
            ELSE Cell(team_features, CHOOSE r \in LatestRowsOf(t) : TRUE, feat_cols[k]))

\* what the artifact of target y predicts for team t, whichever side it plays on
LegPred(t, y) == Predict(models[y], SnapshotOf(t))

Half(a, b) == RDiv(RAdd(a, b), Num(2))

\* the written projection of row r is the blend of the two teams' predictions
BlendedRow(r) ==
    LET h == Cell(preds, r, "homeTeam")
        a == Cell(preds, r, "awayTeam")
    IN  /\ Cell(preds, r, "home_goals") = Half(LegPred(h, "y_goalsFor"), LegPred(a, "y_goalsAgainst"))
        /\ Cell(preds, r, "away_goals") = Half(LegPred(a, "y_goalsFor"), LegPred(h, "y_goalsAgainst"))
        /\ Cell(preds, r, "home_sog") =
               Half(LegPred(h, "y_shotsOnGoalFor"), LegPred(a, "y_shotsOnGoalAgainst"))
        /\ Cell(preds, r, "away_sog") =
               Half(LegPred(a, "y_shotsOnGoalFor"), LegPred(h, "y_shotsOnGoalAgainst"))
        /\ Cell(preds, r, "home_xg") = Half(LegPred(h, "y_xGoalsFor"), LegPred(a, "y_xGoalsAgainst"))
        /\ Cell(preds, r, "away_xg") = Half(LegPred(a, "y_xGoalsFor"), LegPred(h, "y_xGoalsAgainst"))
        /\ Cell(preds, r, "proj_total_goals") =
               RAdd(Cell(preds, r, "home_goals"), Cell(preds, r, "away_goals"))
        /\ Cell(preds, r, "proj_total_sog") =
               RAdd(Cell(preds, r, "home_sog"), Cell(preds, r, "away_sog"))

\* row q is the game of row r with home and away exchanged
Exchanged(r, q) ==
    /\ Cell(preds, r, "homeTeam") = Cell(preds, q, "awayTeam")
    /\ Cell(preds, r, "awayTeam") = Cell(preds, q, "homeTeam")

SidesExchanged(r, q) ==
    /\ Cell(preds, r, "home_goals") = Cell(preds, q, "away_goals")
    /\ Cell(preds, r, "away_goals") = Cell(preds, q, "home_goals")
    /\ Cell(preds, r, "home_sog") = Cell(preds, q, "away_sog")
    /\ Cell(preds, r, "away_sog") = Cell(preds, q, "home_sog")
    /\ Cell(preds, r, "home_xg") = Cell(preds, q, "away_xg")
    /\ Cell(preds, r, "away_xg") = Cell(preds, q, "home_xg")

\* C14: in the projections just written, each side's goals, shots and expected goals
\* are half the sum of that side's for-prediction and the other side's
\* against-prediction, the totals of goals and shots are the sums of the two sides, and
\* two games that are each other's exchange of home and away have their sides' values
\* exchanged
C14_Blending ==
    last_run = Ran("preds", "ok") =>
        /\ \A r \in 1..NRows(preds) : BlendedRow(r)
        /\ \A r, q \in 1..NRows(preds) : Exchanged(r, q) => SidesExchanged(r, q)

\* projections of a game and of its exchange, the two sides' goals being different
C14_Witness ==
    /\ last_run = Ran("preds", "ok")
    /\ \E r, q \in 1..NRows(preds) :
           /\ Exchanged(r, q)
           /\ Cell(preds, r, "homeTeam") = "LAK"
           /\ ~IsNull(Cell(preds, r, "home_goals"))
           /\ Cell(preds, r, "home_goals") # Cell(preds, r, "away_goals")
           /\ Cell(preds, r, "home_goals") # LegPred("LAK", "y_goalsFor")

\* the snapshot table the projector derives from the feature table on disk
Snap == team_latest(team_features)

\* C15: the snapshot table has exactly one row for every team that has a feature row
\* with a date and for no other team, the row carrying the team's maximum gameDate and
\* the feature values of a row of that date; the projections written have exactly one
\* row for every game of the schedule
C15_LatestSnapshot ==
    /\ team_features # NoFrame =>
           /\ {Cell(Snap, r, "team") : r \in 1..NRows(Snap)} =
                  {Cell(team_features, q, "team") :
                      q \in {i \in 1..NRows(team_features) :
                                ~IsNull(Cell(team_features, i, "gameDate"))}}
           /\ \A r, q \in 1..NRows(Snap) :
                  r # q => Cell(Snap, r, "team") # Cell(Snap, q, "team")
           /\ \A r \in 1..NRows(Snap) :
                  \E q \in LatestRowsOf(Cell(Snap, r, "team")) :
                      /\ Cell(Snap, r, "last_gameDate") = Cell(team_features, q, "gameDate")
                      /\ \A c \in {d \in DOMAIN Snap.cols : StartsWith(Snap.cols[d], "team_")} :
                             Cell(Snap, r, Snap.cols[c]) = Cell(team_features, q, Snap.cols[c])
    /\ last_run = Ran("preds", "ok") =>
           /\ NRows(preds) = NRows(df_sched)
           /\ \A g \in 1..NRows(df_sched) :
                  Cardinality({r \in 1..NRows(preds) :
                                  Cell(preds, r, "gameId") = Cell(df_sched, g, "gameId")}) = 1

\* projections of four games from snapshots of three teams, one of which has four
\* feature rows, the last of them without a date
C15_Witness ==
    /\ last_run = Ran("preds", "ok")
    /\ NRows(preds) = 4
    /\ NRows(Snap) = 3
    /\ Cardinality({r \in 1..NRows(team_features) : Cell(team_features, r, "team") = "BOS"}) = 4
    /\ Cardinality(DatedRowsOf("BOS")) = 3
    /\ \E r \in 1..NRows(Snap) :
           Cell(Snap, r, "team") = "BOS" /\ Cell(Snap, r, "last_gameDate") = Num(3)

\* the projector got as far as predicting
PredictReached == last_run \in {Ran("preds", "ok"), Ran("preds", "predict_fatal")}

\* C27: for every target the feature columns the projector passes to the persisted model
\* for the home leg and for the away leg (after the prefix is taken off again) are, in
\* names and order, the columns the trainer fitted that model on, whatever feature table
\* the feature build wrote, one that carries team_opp included.
C27_FeatureParity ==
    PredictReached =>
        \A k \in 1..Len(ProjTargets) :
            models[ProjTargets[k]].feat_cols = FeatCols(team_features)

\* the columns agree when the feature table carries no team_opp column
C27_ParityWithoutOpponent ==
    ~HasCol(team_features, "team_opp") => C27_FeatureParity

\* a projection made from a feature table without the opponent column
C27_WithoutOpponentReached ==
    /\ last_run = Ran("preds", "ok")
    /\ ~HasCol(team_features, "team_opp")
    /\ NRows(preds) > 0

\* the statistic column of team_game behind each target that has one
TargetCols == {<<team_targets[k][1], pick_col(team_game, team_targets[k][2])>> :
                   k \in {j \in 1..Len(team_targets) : pick_col(team_game, team_targets[j][2]) # NoCol}}

\* the model table has a row of game row r of team_game, under the team's normalized
\* code, that carries every statistic of that game as its target
ReceivesTargets(r) ==
    \E q \in 1..NRows(team_model_table) :
        /\ Cell(team_model_table, q, "gameId") = Cell(team_game, r, "gameId")
        /\ Cell(team_model_table, q, "team") = NormalizeTeam(Cell(team_game, r, "team"))
        /\ \A t \in TargetCols :
               Cell(team_model_table, q, t[1]) = Cell(team_game, r, t[2])

\* C28: the team codes on the two sides of the (gameId, team) join of the model-table
\* build are in the same normalized form: every played game's feature row receives its
\* targets, for a team whose raw code is an alias (LA, NJ, SJ, TB, WAS) as for any other.
C28_JoinKeys ==
    team_model_table # NoFrame => \A r \in 1..NRows(team_game) : ReceivesTargets(r)

\* the games of the teams whose raw code is the normalized code receive their targets
C28_CanonicalTeams ==
    team_model_table # NoFrame =>
        \A r \in 1..NRows(team_game) :
            NormalizeTeam(Cell(team_game, r, "team")) = Cell(team_game, r, "team")
                => ReceivesTargets(r)

\* a model table in which a game of BOS carries its non-null targets
C28_CanonicalReached ==
    /\ team_model_table # NoFrame
    /\ \E q \in 1..NRows(team_model_table) :
           /\ Cell(team_model_table, q, "team") = "BOS"
           /\ ~IsNull(Cell(team_model_table, q, "y_goalsFor"))

\* the artifacts of the four stages: features/, model_data/, models/ and preds/
FeatureFiles == featvars
ModelDataFiles == modelvars
ModelFiles == <<models, report>>
PredFiles == preds

\* a run of a stage writes that stage's directory only
WritesOwnOnly ==
    /\ last_run'.stage = "features" =>
           UNCHANGED <<rawvars, ModelDataFiles, ModelFiles, PredFiles>>
    /\ last_run'.stage = "model_data" =>
           UNCHANGED <<rawvars, FeatureFiles, ModelFiles, PredFiles>>
    /\ last_run'.stage = "models" =>
           UNCHANGED <<rawvars, FeatureFiles, ModelDataFiles, PredFiles>>
    /\ last_run'.stage = "preds" =>
           UNCHANGED <<rawvars, FeatureFiles, ModelDataFiles, ModelFiles>>

\* a stage run again right after itself, its inputs being what they were (for the
\* trainer the fits and their errors, for the projector the schedule it fetched)
RerunKeepsOwn ==
    last_run'.stage = last_run.stage =>
        /\ last_run.stage = "features" => UNCHANGED FeatureFiles
        /\ last_run.stage = "model_data" => UNCHANGED ModelDataFiles
        /\ last_run.stage = "models" /\ report' = report /\ last_run' = last_run =>
               UNCHANGED ModelFiles
        /\ last_run.stage = "preds" /\ df_sched' = df_sched => UNCHANGED PredFiles

\* C24: in every sequence of runs of the feature build, the model-table build, the
\* training and the projection, each run writes only the artifacts of its own stage and
\* leaves those of every other stage as they were, and a stage run again on unchanged
\* inputs leaves its own artifacts as they were.
C24_StageIsolation == [][WritesOwnOnly /\ RerunKeepsOwn]_vars

\* the feature build run again after all four stages have written their artifacts
C24_Witness ==
    /\ last_run = Ran("features", "ok")
    /\ team_model_table # NoFrame
    /\ \E y \in DOMAIN models : models[y] # NoModel
    /\ report # NoFrame
    /\ preds # NoFrame

\* the alias codes and the code each stands for
AliasCodes == {"LA", "NJ", "SJ", "TB", "WAS"}
CanonicalOf == [code \in AliasCodes |->
                   CASE code = "LA" -> "LAK" [] code = "NJ" -> "NJD" [] code = "SJ" -> "SJS"
                     [] code = "TB" -> "TBL" [] code = "WAS" -> "WSH"]

\* the code a table should show for a raw code, blanks around it aside
Canonical(code) == IF Strip(code) \in AliasCodes THEN CanonicalOf[Strip(code)] ELSE Strip(code)

\* the values table f has in those of the columns cols it has
CodesOf(f, cols) == {Cell(f, r, c) : r \in 1..NRows(f), c \in {d \in cols : HasCol(f, d)}}

\* per row of f: the game and what Op makes of the codes in the columns cols
CodeRows(f, cols, Op(_)) ==
    {<<Cell(f, r, "gameId"), MkSeq(Len(Present(f, cols)), LAMBDA k : Op(Cell(f, r, Present(f, cols)[k])))>> :
        r \in 1..NRows(f)}

AsIs(code) == code

TeamCodeCols == <<"team", "team_opp">>
SchedCodeCols == <<"homeTeam", "awayTeam">>

\* a feature table shows the codes of its raw table canonically; a model table shows
\* the codes of its feature table
CodesCarried(raw, feat, model) ==
    /\ feat # NoFrame =>
           CodeRows(feat, TeamCodeCols, AsIs) = CodeRows(raw, TeamCodeCols, Canonical)
    /\ (model # NoFrame /\ feat # NoFrame) =>
           CodeRows(model, TeamCodeCols, AsIs) = CodeRows(feat, TeamCodeCols, AsIs)

\* C9: no team or team_opp of a feature table or a model table and no homeTeam or
\* awayTeam of the projections is one of the alias codes LA, NJ, SJ, TB, WAS; every row
\* shows LAK, NJD, SJS, TBL, WSH for them and every other code as it was (blanks around
\* it aside); mapping a code twice gives what mapping it once gives
C9_TeamCodes ==
    /\ \A f \in {team_features, skater_features, goalie_features,
                 team_model_table, skater_model_table, goalie_model_table} :
           CodesOf(f, {"team", "team_opp"}) \cap AliasCodes = {}
    /\ CodesOf(preds, {"homeTeam", "awayTeam"}) \cap AliasCodes = {}
    /\ CodesCarried(team_game, team_features, team_model_table)
    /\ CodesCarried(skater_game, skater_features, skater_model_table)
    /\ CodesCarried(goalie_game, goalie_features, goalie_model_table)
    /\ last_run = Ran("preds", "ok") =>
           CodeRows(preds, SchedCodeCols, AsIs) = CodeRows(df_sched, SchedCodeCols, Canonical)
    /\ \A code \in CodesOf(team_game, {"team", "team_opp"}) \cup CodesOf(skater_game, {"team", "team_opp"})
                       \cup CodesOf(df_sched, {"homeTeam", "awayTeam"}) :
           /\ NormalizeTeam(NormalizeTeam(code)) = NormalizeTeam(code)
           /\ NormalizeSchedTeam(NormalizeSchedTeam(code)) = NormalizeSchedTeam(code)

\* projections written for the three games of a schedule that names five alias codes,
\* from tables whose raw codes were aliases too
C9_Witness ==
    /\ last_run = Ran("preds", "ok")
    /\ CodesOf(df_sched, {"homeTeam", "awayTeam"}) = {" LA", "BOS", "NJ", "SJ", "TB ", "WAS"}
    /\ CodesOf(preds, {"homeTeam", "awayTeam"}) = {"LAK", "BOS", "NJD", "SJS", "TBL", "WSH"}
    /\ CodesOf(team_game, {"team"}) = {"BOS", "LA ", "TB"}
    /\ CodesOf(team_model_table, {"team"}) = {"BOS", "LAK", "TBL"}
    /\ CodesOf(skater_game, {"team_opp"}) = {"LA"}
    /\ CodesOf(skater_model_table, {"team_opp"}) = {"LAK"}


---------------------------------------------------------------------------
(* Training and projection runs between which later games arrive *)

LaterSeason == Num(2023)

\* two games of the first season and one of the next, every statistic present
ThreeGames ==
    Frame(SeasonStart.cols,
          <<TeamGameRow(<<"gf", "shotsFor">>, 1, FirstSeason, "BOS", Num(2), Num(12)),
            TeamGameRow(<<"gf", "shotsFor">>, 2, FirstSeason, "BOS", Num(3), Num(12)),
            TeamGameRow(<<"gf", "shotsFor">>, 3, NextSeason, "BOS", Num(2), Num(12))>>)

\* the holdout errors of ridge, hgb and rf in a run
RetrainScenarios == {<<Num(1), Num(2), Num(2)>>, <<Num(2), Num(1), Num(1)>>}

RetrainInit ==
    /\ NoCall
    /\ NoOutputs
    /\ pc = "processed"
    /\ team_game = ThreeGames
    /\ skater_game = OneSkaterGame
    /\ goalie_game = OneGoalieGame

\* 01 run again later: the processed team table has one more game, whose shots may
\* be missing
LoadLaterGame ==
    /\ NRows(team_game) < NRows(ThreeGames) + MaxGames
    /\ \E season \in {NextSeason, LaterSeason}, w \in TrainShots :
           team_game' = Frame(team_game.cols,
                Append(team_game.data,
                       TeamGameRow(StatsOf(team_game), NRows(team_game) + 1, season, "BOS",
                                   Num(2), w)))
    /\ UNCHANGED <<pc, callvars, skater_game, goalie_game, featvars, modelvars, trainvars,
                   projvars, last_run, raw_dir, download>>

RetrainNext ==
    \/ LoadLaterGame
    \/ BuildFeatures
    \/ BuildModelTables
    \/ \E scen \in RetrainScenarios : TrainWith(scen)
    \/ ProjectUpcoming

SpecRetrain == RetrainInit /\ [][RetrainNext]_vars

(* Properties of SpecRetrain *)

\* the artifact of target y is the one the last run fitted on its training rows
FittedByLastRun(y) ==
    /\ splits[y].fitted
    /\ models[y].y_mean = MeanMinPeriods(Column(splits[y].train_df, y), 1)

\* C25: after every training run that completed, every team model artifact in the
\* models directory was fitted and selected by that run; no artifact of an earlier run
\* is left, also not for a target the run skipped.
C25_ArtifactsOfLastRun ==
    last_run = Ran("models", "ok") =>
        \A y \in TeamTargetNames : models[y] # NoModel => FittedByLastRun(y)

\* the artifacts are those of the last run when that run skipped no target that an
\* earlier run had trained
C25_WithoutSkips ==
    (\A y \in TeamTargetNames : models[y] # NoModel => splits[y].fitted) =>
        C25_ArtifactsOfLastRun

\* a second completed run that replaced the artifacts of the first
C25_Replaced ==
    /\ last_run = Ran("models", "ok")
    /\ NRows(team_game) > NRows(ThreeGames)
    /\ \E y \in TeamTargetNames :
           /\ models[y] # NoModel
           /\ NRows(splits[y].train_df) + NRows(splits[y].test_df) > NRows(ThreeGames)
    /\ \A y \in TeamTargetNames : models[y] # NoModel => FittedByLastRun(y)

\* a training run has completed, and the models directory lacks one of the six targets
TargetMissing == \E y \in TeamTargetNames : models[y] = NoModel

\* C29: the projector loads an artifact for each of six fixed targets, whichever targets
\* the trainer trained: run after a completed training that skipped or never saw one of
\* the six (no earlier artifact being there), it ends with an error before the schedule
\* is fetched and writes no projection.
C29_SixTargets ==
    (last_run.stage = "preds" /\ report # NoFrame /\ TargetMissing) =>
        /\ last_run = Ran("preds", "load_fatal")
        /\ df_sched = NoFrame
        /\ preds = NoFrame

\* the projector run after a completed training that trained the goals, skipped the
\* shots and never saw the four other targets
C29_Witness ==
    /\ last_run = Ran("preds", "load_fatal")
    /\ report # NoFrame
    /\ models["y_goalsFor"] # NoModel
    /\ HasCol(team_model_table, "y_shotsOnGoalFor") /\ models["y_shotsOnGoalFor"] = NoModel
    /\ ~HasCol(team_model_table, "y_xGoalsFor")

---------------------------------------------------------------------------
(* The whole pipeline on team tables without the opponent, one of which repeats a row *)

SnapshotInit ==
    /\ NoCall
    /\ NoOutputs
    /\ pc = "processed"
    /\ team_game \in {SixStatGames(FALSE), SixStatGamesRepeated}
    /\ skater_game = OneSkaterGame
    /\ goalie_game = OneGoalieGame

SpecSnapshot == SnapshotInit /\ [][ProjectNext]_vars

\* the processed team table as 04 reads and standardises it
Games == Prepared(team_game)

\* the rows of the games team t played strictly before day d
PlayedBefore(t, d) ==
    SelectSeq(MkSeq(NRows(Games), LAMBDA q : q),
              LAMBDA q : /\ Cell(Games, q, "team") = t
                         /\ ~IsNull(Cell(Games, q, "gameDate"))
                         /\ RLess(Cell(Games, q, "gameDate"), d))

\* the mean of statistic c over the games team t played strictly before day d
MeanBefore(t, d, c) ==
    LET rows == PlayedBefore(t, d)
    IN  MeanMinPeriods(MkSeq(Len(rows), LAMBDA i : Cell(Games, rows[i], c)), 1)

\* the rolling columns of the raw statistics in the snapshot table
SnapStats == {c \in 1..Len(SixStats) : HasCol(Snap, RollName("team_", 5, SixStats[c]))}

\* C30: when the projector has projected, every rolling value of a statistic in the
\* snapshot row of a team is the mean of that statistic over the team's games strictly
\* before the team's latest played game (the games of a team being fewer than the
\* shortest window), so the latest game's own statistics are not in it
C30_SnapshotBeforeLatest ==
    last_run = Ran("preds", "ok") =>
        \A r \in 1..NRows(Snap) : \A c \in SnapStats :
            Cell(Snap, r, RollName("team_", 5, SixStats[c])) =
                MeanBefore(Cell(Snap, r, "team"), Cell(Snap, r, "last_gameDate"), SixStats[c])

\* no team has two feature rows of one game
OneRowPerGame ==
    \A r, q \in 1..NRows(Games) :
        (r # q /\ Cell(Games, r, "team") = Cell(Games, q, "team"))
            => Cell(Games, r, "gameId") # Cell(Games, q, "gameId")

\* the snapshot holds only games before the latest one when no team has a game twice
C30_BeforeLatestOfDistinctGames == OneRowPerGame => C30_SnapshotBeforeLatest

\* a projection from a snapshot of BOS, whose latest game of day 3 follows two games: the
\* rolling goals are the mean 5/2 of the goals 2 and 3 of those and not the 5 of day 3
C30_DistinctGamesReached ==
    /\ last_run = Ran("preds", "ok")
    /\ OneRowPerGame
    /\ SnapStats # {}
    /\ \E r \in 1..NRows(Snap) :
           /\ Cell(Snap, r, "team") = "BOS"
           /\ Cell(Snap, r, "last_gameDate") = Num(3)
           /\ Cell(Snap, r, "team_5_goalsFor") = <<5, 2>>
           /\ Len(PlayedBefore("BOS", Num(3))) = 2

================================================================================
